---- MODULE Spec2Model ----
(***************************************************************************)
(* A model of the post pipeline of twitterScrapper: parse_api_tweet and    *)
(* the parse loop of run_scraper, filter_tweets_by_date, and               *)
(* group_tweets_into_threads (src/src/extractor.py, src/scraper.py).       *)
(*                                                                         *)
(* Python's optional values are sequences of length at most one: << >> is  *)
(* None and <<v>> is the value v.  A post's identifier is an integer; a    *)
(* datetime is a record of its wall-clock reading and its tzinfo.          *)
(***************************************************************************)
EXTENDS Integers, Sequences, FiniteSets, TLC

VARIABLES
    pc,             \* the position of the running function
    tweets,         \* list[Tweet]: the batch being built, filtered or grouped
    target_author,  \* group_tweets_into_threads: the scrape target
    i,              \* index of the next element a for-loop visits
    in_thread,      \* group_tweets_into_threads: ids placed in a thread
    threads,        \* group_tweets_into_threads: list[Thread]
    standalone,     \* group_tweets_into_threads: list[Tweet]
    placed,         \* history: each placement of a post into a thread
    start_date,     \* filter_tweets_by_date: start of the range
    end_date,       \* filter_tweets_by_date: end of the range
    filtered,       \* filter_tweets_by_date: the list being returned
    raw_tweets,     \* run_scraper: the payloads fetched from the API
    tweets_with_video,   \* get_tweets_needing_video_download: first result
    threads_with_video,  \* get_tweets_needing_video_download: second result
    returned,       \* history: what each call of it has returned
    tweets_to_process,   \* run_scraper: the standalone posts to process
    threads_to_process,  \* run_scraper: the threads to process
    video_success_count, \* run_scraper: downloads that succeeded
    video_fail_count,    \* run_scraper: downloads that failed
    json_count,     \* run_scraper: sidecars saved
    files,          \* the files of output_dir
    results,        \* history: what each iteration of the loops obtained
    selected_model, \* transcribe: the model of the primary call
    do_clean,       \* transcribe: run the FFmpeg cleanup
    do_trim,        \* transcribe: trim silence
    audio_files,    \* the audio files there are, each with its size
    upload_path,    \* transcribe: the file to upload
    file_size,      \* transcribe: the size of that file, once read
    temp_clean_path,     \* transcribe: the cleaned file it has to remove
    created,        \* history: the temporary files the invocation created
    service_calls,  \* history: the calls of the transcription service
    pending,        \* transcribe: what it is about to return or raise
    remove_failed,  \* history: os.remove raised in the finally clause
    video_files,    \* extract_audio_from_videos: the videos found, sorted
    skip_existing,  \* extract_audio_from_videos: its flag
    out_dir,        \* the voice files there are, each with its content
    ffmpeg_runs,    \* history: the runs of FFmpeg by extract_audio
    successful,     \* extract_audio_from_videos: videos extracted
    skipped,        \* extract_audio_from_videos: videos skipped
    failed,         \* extract_audio_from_videos: videos that failed
    extract_log,    \* history: what each iteration found and counted
    audio_found,    \* transcribe_audio_files: the audio files found, sorted
    update_json,    \* transcribe_audio_files: its flag
    store,          \* the JSON files there are, each with its content
    run_no,         \* the number of the run of transcribe_audio_files
    batch_log,      \* history: what each iteration found and counted
    writes,         \* history: the JSON files written, in order
    batch_payloads, \* the two pipelines: the payloads the API answers with
    answers,        \* the two pipelines: what the collaborators answer
    clock,          \* the two pipelines: what datetime.now() reads next
    range_end,      \* the two pipelines: the end of the date range
    videos_only,    \* run_scraper: its flag
    disk,           \* the two pipelines: the video files of the directory
    voice_dir,      \* the two pipelines: the voice files of the directory
    sidecars,       \* the two pipelines: the JSON files of the directory
    pipe_run,       \* the number of the run of the two pipelines
    after_run,      \* history: the JSON files after each run
    pipe_log,       \* history: what transcribe_audio_files did in each run
    api_pages,      \* get_user_tweets: what the API answers, request by request
    page_at,        \* get_user_tweets: the number of the next request
    fetch_limit,    \* run_scraper: its limit
    api_error,      \* history: a request raised TwitterAPIError
    fetch_store,    \* run_scraper: the JSON files it has saved
    summary         \* history: run_scraper printed its summary

groupVars == <<target_author, in_thread, threads, standalone, placed>>

filterVars == <<start_date, end_date, filtered>>

parseVars == <<raw_tweets>>

selectVars == <<tweets_with_video, threads_with_video, returned>>

downloadVars == <<tweets_to_process, threads_to_process, video_success_count,
                  video_fail_count, json_count, files, results>>

transcribeVars == <<selected_model, do_clean, do_trim, audio_files, upload_path,
                    file_size, temp_clean_path, created, service_calls, pending, remove_failed>>

extractVars == <<video_files, skip_existing, out_dir, ffmpeg_runs, successful,
                 skipped, failed, extract_log>>

\* the variables of the functions that come after the parse loop, the date
\* filter and the thread reconstruction
batchVars == <<audio_found, update_json, store, run_no, batch_log, writes>>

\* the variables of transcribe_audio_files and of what is modelled after it
pipeVars == <<batch_payloads, answers, clock, range_end, videos_only, disk,
              voice_dir, sidecars, pipe_run, after_run, pipe_log>>

\* the variables of what is modelled after transcribe_audio_files
fetchVars == <<api_pages, page_at, fetch_limit, api_error, fetch_store, summary>>

restVars == <<pipeVars, fetchVars>>

lastVars == <<batchVars, restVars>>

laterVars == <<selectVars, downloadVars, transcribeVars, extractVars, lastVars>>

vars == <<pc, tweets, i, groupVars, filterVars, parseVars, laterVars>>

\* what the variables of a function hold while another function runs
IdleGroup ==
    /\ target_author = "target"
    /\ in_thread = {}
    /\ threads = << >>
    /\ standalone = << >>
    /\ placed = << >>

IdleFilter ==
    /\ start_date = << >>
    /\ end_date = << >>
    /\ filtered = << >>

IdleParse == raw_tweets = << >>

IdleSelect ==
    /\ tweets_with_video = << >>
    /\ threads_with_video = << >>
    /\ returned = << >>

IdleDownload ==
    /\ tweets_to_process = << >>
    /\ threads_to_process = << >>
    /\ video_success_count = 0
    /\ video_fail_count = 0
    /\ json_count = 0
    /\ files = {}
    /\ results = << >>

IdleTranscribe ==
    /\ selected_model = "whisper-1"
    /\ do_clean = FALSE
    /\ do_trim = FALSE
    /\ audio_files = {}
    /\ upload_path = "audio"
    /\ file_size = << >>
    /\ temp_clean_path = << >>
    /\ created = {}
    /\ service_calls = << >>
    /\ pending = << >>
    /\ remove_failed = FALSE

IdleExtract ==
    /\ video_files = << >>
    /\ skip_existing = TRUE
    /\ out_dir = {}
    /\ ffmpeg_runs = << >>
    /\ successful = 0
    /\ skipped = 0
    /\ failed = 0
    /\ extract_log = << >>

IdleBatch ==
    /\ audio_found = << >>
    /\ update_json = FALSE
    /\ store = {}
    /\ run_no = 1
    /\ batch_log = << >>
    /\ writes = << >>

IdlePipe ==
    /\ batch_payloads = << >>
    /\ answers = << >>
    /\ clock = 0
    /\ range_end = 0
    /\ videos_only = FALSE
    /\ disk = {}
    /\ voice_dir = {}
    /\ sidecars = {}
    /\ pipe_run = 1
    /\ after_run = << >>
    /\ pipe_log = << >>

IdleFetch ==
    /\ api_pages = << >>
    /\ page_at = 1
    /\ fetch_limit = << >>
    /\ api_error = FALSE
    /\ fetch_store = {}
    /\ summary = FALSE

IdleRest == IdlePipe /\ IdleFetch

IdleLast == IdleBatch /\ IdleRest

IdleLater == IdleSelect /\ IdleDownload /\ IdleTranscribe /\ IdleExtract /\ IdleLast

(* ------------------------------ bounds --------------------------------- *)

\* the longest batch handed to group_tweets_into_threads
MaxTweets == 3

\* the longest batch handed to filter_tweets_by_date
MaxFilter == 3

\* the number of payloads fetched before the parse loop of run_scraper
MaxRaw == 2

\* wall-clock readings are 1..MaxWall
MaxWall == 3

(* ---------------------------- the records ------------------------------ *)

None == << >>

Some(v) == <<v>>

\* Python truthiness of an optional identifier
Truthy(opt) == opt /= None

\* Python truthiness of an optional string: None and "" are false
TruthyStr(opt) == opt /= None /\ opt /= Some("")

\* a naive datetime: tzinfo is None
Naive(wall) == [wall |-> wall, tz |-> None]

\* the key datetime comparison orders by; every datetime of one batch is of
\* one kind (all naive, or all aware), as comparison requires
Instant(d) == IF d.tz = None THEN d.wall ELSE d.wall - d.tz[1]

Authors == {"target", "other"}

\* models.Tweet as its constructor leaves it: video_file and transcript
\* take their defaults
Tweet(id, author, text, date, url, video_url, is_retweet, is_reply, reply_to_id) ==
    [id |-> id, author |-> author, text |-> text, date |-> date, url |-> url,
     video_url |-> video_url, video_file |-> None,
     is_retweet |-> is_retweet, is_reply |-> is_reply,
     reply_to_id |-> reply_to_id, transcript |-> None]

\* models.Thread
Thread(id, author, date, members) ==
    [id |-> id, author |-> author, date |-> date, tweets |-> members,
     video_url |-> None, video_file |-> None, transcript |-> None]

(* ------------------------ pure helper functions ------------------------ *)

Range(s) == {s[k] : k \in 1..Len(s)}

\* [t.id for t in seq]
IdsOf(seq) == {seq[k].id : k \in 1..Len(seq)}

\* TweetById answering an unknown id with the first post of the batch
TweetById_Default(ts, id) ==
    LET hits == {k \in 1..Len(ts) : ts[k].id = id}
    IN  IF hits = {} THEN Some(ts[1])
        ELSE Some(ts[CHOOSE k \in hits : \A m \in hits : m <= k])

\* tweet_by_id = {t.id: t for t in tweets}; tweet_by_id.get(id).  A later
\* post with the same id replaces an earlier one.
TweetById(ts, id) ==
    LET hits == {k \in 1..Len(ts) : ts[k].id = id}
    IN  IF hits = {} THEN None
        ELSE Some(ts[CHOOSE k \in hits : \A m \in hits : m <= k])

\* list.sort(key=lambda t: t.date) is stable: x goes behind every element
\* whose date is not later than its own
InsertByDate(s, x) ==
    LET before == {k \in 1..Len(s) : Instant(s[k].date) <= Instant(x.date)}
        n == IF before = {} THEN 0
             ELSE CHOOSE k \in before : \A m \in before : m <= k
        \* s is sorted, so `before` is a prefix of its indices
    IN  SubSeq(s, 1, n) \o <<x>> \o SubSeq(s, n + 1, Len(s))

\* SortByDate leaving the list as it is
SortByDate_Unsorted(s) == s

RECURSIVE SortByDate(_)
SortByDate(s) ==
    IF s = << >> THEN << >>
    ELSE InsertByDate(SortByDate(SubSeq(s, 1, Len(s) - 1)), s[Len(s)])

\* get_first_video_url taking the field of the first member that has one,
\* the empty string included
get_first_video_url_NotNone(thread) ==
    IF thread.video_url /= None THEN thread.video_url
    ELSE LET with == {k \in 1..Len(thread.tweets) : thread.tweets[k].video_url /= None}
         IN  IF with = {} THEN None
             ELSE thread.tweets[CHOOSE k \in with : \A m \in with : k <= m].video_url

\* Thread.get_first_video_url
get_first_video_url(thread) ==
    IF TruthyStr(thread.video_url) THEN thread.video_url
    ELSE LET with == {k \in 1..Len(thread.tweets) :
                         TruthyStr(thread.tweets[k].video_url)}
         IN  IF with = {} THEN None
             ELSE thread.tweets[CHOOSE k \in with : \A m \in with : k <= m].video_url

(* -------------------- group_tweets_into_threads ------------------------ *)

\* IsContinuation without the test of is_reply
IsContinuation_AnyParentId(ts, tweet, target) ==
    /\ Truthy(tweet.reply_to_id)
    /\ LET parent == TweetById(ts, tweet.reply_to_id[1])
       IN  /\ parent /= None
           /\ parent[1].author = tweet.author
           /\ tweet.author = target

\* IsContinuation comparing the two authors with each other only
IsContinuation_AnyAuthor(ts, tweet, target) ==
    /\ tweet.is_reply
    /\ Truthy(tweet.reply_to_id)
    /\ LET parent == TweetById(ts, tweet.reply_to_id[1])
       IN  /\ parent /= None
           /\ parent[1].author = tweet.author

\* the condition of lines 98-100: tweet is a thread continuation
IsContinuation(ts, tweet, target) ==
    /\ tweet.is_reply
    /\ Truthy(tweet.reply_to_id)
    /\ LET parent == TweetById(ts, tweet.reply_to_id[1])
       IN  /\ parent /= None
           /\ parent[1].author = tweet.author
           /\ tweet.author = target

\* WithParentThread without the test of in_thread
WithParentThread_Always(ths, inth, parent) ==
    Append(ths, Thread(parent.id, parent.author, parent.date, <<parent>>))

\* lines 102-111: the threads after the parent has been given a thread
WithParentThread(ths, inth, parent) ==
    IF parent.id \notin inth
    THEN Append(ths, Thread(parent.id, parent.author, parent.date, <<parent>>))
    ELSE ths

\* lines 114-115: the first thread whose id or membership names the parent;
\* 0 when the scan finds none
FindThread(ths, parent) ==
    LET hits == {k \in 1..Len(ths) :
                    \/ ths[k].id = parent.id
                    \/ parent.id \in IdsOf(ths[k].tweets)}
    IN  IF hits = {} THEN 0
        ELSE CHOOSE k \in hits : \A m \in hits : k <= m

\* the batches group_tweets_into_threads is called on: identifiers are
\* unique (a post's identifier is its position in the list); a timestamp is
\* one of as many instants as the batch may hold posts; reply_to_id is None,
\* an identifier of the batch, or one that is not in the batch
GroupPosts(n) ==
    [1..n -> [author : Authors, wall : 1..MaxTweets, is_reply : BOOLEAN,
              reply_to_id : {None} \cup {Some(k) : k \in 1..(MaxTweets + 1)}]]

MakeBatch(n, f) ==
    [k \in 1..n |->
        Tweet(k, f[k].author, "text", Naive(f[k].wall), "url", None, FALSE,
              f[k].is_reply, f[k].reply_to_id)]

InitGroup ==
    /\ pc = "group_loop"
    /\ \E n \in 0..MaxTweets : \E f \in GroupPosts(n) : tweets = MakeBatch(n, f)
    /\ i = 1
    /\ IdleGroup
    /\ IdleFilter
    /\ IdleParse
    /\ IdleLater

\* lines 97-119: one iteration of `for tweet in tweets`
GroupStep ==
    /\ pc = "group_loop"
    /\ i <= Len(tweets)
    /\ LET tweet == tweets[i]
       IN  IF IsContinuation(tweets, tweet, target_author)
           THEN LET parent == TweetById(tweets, tweet.reply_to_id[1])[1]
                    seeded == parent.id \notin in_thread
                    ths1 == WithParentThread(threads, in_thread, parent)
                    inth1 == in_thread \cup {parent.id}
                    k == FindThread(ths1, parent)
                    add == k /= 0 /\ tweet.id \notin inth1
                IN  /\ threads' =
                          IF add
                          THEN [ths1 EXCEPT ![k].tweets = Append(@, tweet)]
                          ELSE ths1
                    /\ in_thread' = IF add THEN inth1 \cup {tweet.id} ELSE inth1
                    /\ placed' = placed
                          \o (IF seeded
                              THEN <<[post |-> parent.id, thread |-> parent.id,
                                      role |-> "root", by |-> tweet.id]>>
                              ELSE << >>)
                          \o (IF add
                              THEN <<[post |-> tweet.id, thread |-> ths1[k].id,
                                      role |-> "continuation", by |-> tweet.id]>>
                              ELSE << >>)
           ELSE UNCHANGED <<threads, in_thread, placed>>
    /\ i' = i + 1
    /\ UNCHANGED <<pc, tweets, target_author, standalone, filterVars, parseVars, laterVars>>

\* the loop of lines 97-119 is exhausted
GroupLoopEnd ==
    /\ pc = "group_loop"
    /\ i > Len(tweets)
    /\ pc' = "group_sort"
    /\ i' = 1
    /\ UNCHANGED <<tweets, groupVars, filterVars, parseVars, laterVars>>

\* lines 122-125: one iteration of `for thread in threads`
SortStep ==
    /\ pc = "group_sort"
    /\ i <= Len(threads)
    /\ LET sorted == [threads[i] EXCEPT !.tweets = SortByDate(@)]
       IN  threads' = [threads EXCEPT
                          ![i] = [sorted EXCEPT !.video_url = get_first_video_url(sorted)]]
    /\ i' = i + 1
    /\ UNCHANGED <<pc, tweets, target_author, in_thread, standalone, placed,
                   filterVars, parseVars, laterVars>>

\* lines 127-130: the standalone list, and the return
GroupReturn ==
    /\ pc = "group_sort"
    /\ i > Len(threads)
    /\ standalone' = SelectSeq(tweets, LAMBDA t : t.id \notin in_thread)
    /\ pc' = "group_done"
    /\ UNCHANGED <<tweets, target_author, i, in_thread, threads, placed,
                   filterVars, parseVars, laterVars>>

NextGroup == GroupStep \/ GroupLoopEnd \/ SortStep \/ GroupReturn

SpecGroup == InitGroup /\ [][NextGroup]_vars

(* ------------- properties of group_tweets_into_threads ----------------- *)

GroupDone == pc = "group_done"

\* the places (thread, position) at which the post `id` is a thread member
Slots(id) ==
    {<<k, j>> \in (1..Len(threads)) \X (1..MaxTweets + 1) :
        j <= Len(threads[k].tweets) /\ threads[k].tweets[j].id = id}

InStandalone(id) == \E j \in 1..Len(standalone) : standalone[j].id = id

\* q is a reply to p, and both are authored by the target author
ContinuationOf(q, p) ==
    /\ q.is_reply
    /\ q.reply_to_id = Some(p.id)
    /\ q.author = target_author
    /\ p.author = target_author

\* a, b, c: a reply chain of the target author with increasing timestamps,
\* whose root a continues no post of the batch
IsChain(a, b, c) ==
    /\ ContinuationOf(b, a)
    /\ ContinuationOf(c, b)
    /\ ~ \E r \in Range(tweets) : ContinuationOf(a, r)
    /\ Instant(a.date) < Instant(b.date)
    /\ Instant(b.date) < Instant(c.date)

\* C1: a reply chain R, reply1, reply2 of the target author, in whatever
\* order the batch lists its posts, comes back as exactly one Thread
\* [R, reply1, reply2]; no other Thread holds one of its posts and none of
\* them is standalone.
C1_ChainIsOneThread ==
    GroupDone =>
        \A a, b, c \in Range(tweets) :
            IsChain(a, b, c) =>
                /\ \E k \in 1..Len(threads) :
                      /\ threads[k].tweets = <<a, b, c>>
                      /\ \A m \in 1..Len(threads) :
                            m /= k => IdsOf(threads[m].tweets) \cap {a.id, b.id, c.id} = {}
                /\ ~ InStandalone(a.id) /\ ~ InStandalone(b.id) /\ ~ InStandalone(c.id)

\* C2: the Threads and the standalone list partition the batch.  While the
\* loop runs no post is a member twice, of one Thread or of two; on return
\* every post is in exactly one place and nothing else is returned.
C2_Partition ==
    /\ \A t \in Range(tweets) : Cardinality(Slots(t.id)) <= 1
    /\ \A a, b \in 1..Len(placed) : placed[a].post = placed[b].post => a = b
    /\ \A k \in 1..Len(threads) : Range(threads[k].tweets) \subseteq Range(tweets)
    /\ GroupDone =>
          /\ Range(standalone) \subseteq Range(tweets)
          /\ \A a, b \in 1..Len(standalone) : standalone[a].id = standalone[b].id => a = b
          /\ \A t \in Range(tweets) : InStandalone(t.id) <=> Slots(t.id) = {}

\* a returned Thread with several members beside a standalone post
C2_Witness ==
    /\ GroupDone
    /\ \E k \in 1..Len(threads) : Len(threads[k].tweets) >= 2
    /\ standalone /= << >>

\* the post of the batch with identifier id
PostOf(id) == TweetById(tweets, id)[1]

\* a reply whose parent is not a post of the batch
IsOrphanReply(p) ==
    /\ p.is_reply
    /\ \/ p.reply_to_id = None
       \/ TweetById(tweets, p.reply_to_id[1]) = None

\* C3 as stated: every reply whose parent is not in the batch is standalone
\* and a member of no Thread.
C3_OrphanReplyStandalone ==
    GroupDone =>
        \A p \in Range(tweets) :
            IsOrphanReply(p) => InStandalone(p.id) /\ Slots(p.id) = {}

\* C3, amended: a reply whose parent is not in the batch is never appended
\* to a Thread as a continuation; it is standalone and in no Thread unless
\* another post of the batch is a continuation of it, and then it is the
\* root of the one Thread that holds it.
C3_OrphanReplyNotContinuation ==
    /\ \A e \in Range(placed) :
          e.role = "continuation" => ~ IsOrphanReply(PostOf(e.post))
    /\ GroupDone =>
          \A p \in Range(tweets) :
              IsOrphanReply(p) =>
                  IF \E q \in Range(tweets) : ContinuationOf(q, p)
                  THEN /\ ~ InStandalone(p.id)
                       /\ \A s \in Slots(p.id) : threads[s[1]].id = p.id
                       /\ Slots(p.id) /= {}
                  ELSE InStandalone(p.id) /\ Slots(p.id) = {}

\* one reply to a missing parent is standalone, another is the root of a
\* Thread
C3_Witness ==
    /\ GroupDone
    /\ \E p \in Range(tweets) :
          IsOrphanReply(p) /\ p.author = target_author /\ InStandalone(p.id)
    /\ \E p \in Range(tweets) : IsOrphanReply(p) /\ Slots(p.id) /= {}

\* C4: a post of another author than the target is never a member of a
\* Thread and is standalone on return, also when it replies to a post of its
\* own author in the batch; a reply of the target author to a post of another
\* author is not appended as a continuation of it.
C4_TargetAuthorOnly ==
    /\ \A k \in 1..Len(threads) :
          /\ threads[k].author = target_author
          /\ \A t \in Range(threads[k].tweets) : t.author = target_author
    /\ \A e \in Range(placed) :
          e.role = "continuation" =>
              PostOf(PostOf(e.post).reply_to_id[1]).author = target_author
    /\ GroupDone =>
          \A t \in Range(tweets) :
              t.author /= target_author => InStandalone(t.id) /\ Slots(t.id) = {}

\* a reply of another author to its own post, and a reply of the target
\* author to a post of another author, both standalone on return
C4_Witness ==
    /\ GroupDone
    /\ \E q, p \in Range(tweets) :
          /\ q.author /= target_author /\ p.author = q.author /\ q.id /= p.id
          /\ q.is_reply /\ q.reply_to_id = Some(p.id)
          /\ InStandalone(q.id) /\ InStandalone(p.id)
    /\ \E q, p \in Range(tweets) :
          /\ q.author = target_author /\ p.author /= target_author
          /\ q.is_reply /\ q.reply_to_id = Some(p.id)
          /\ InStandalone(q.id)

\* C5: a post P that is not marked as a reply never acts as a continuation,
\* whatever its reply_to_id: the iteration that visits P creates no Thread
\* and appends nothing, P is never appended to a Thread, and P is standalone
\* on return unless another post is a continuation of P.
C5_NotReplyNotContinuation ==
    /\ \A e \in Range(placed) : PostOf(e.by).is_reply
    /\ \A e \in Range(placed) :
          e.role = "continuation" => PostOf(e.post).is_reply
    /\ GroupDone =>
          \A p \in Range(tweets) :
              (~ p.is_reply /\ ~ \E q \in Range(tweets) : ContinuationOf(q, p))
                  => InStandalone(p.id) /\ Slots(p.id) = {}

\* a post of the target author that is not a reply and names another post of
\* the target author in reply_to_id: both are standalone on return
C5_Witness ==
    /\ GroupDone
    /\ \E p, r \in Range(tweets) :
          /\ ~ p.is_reply /\ p.reply_to_id = Some(r.id) /\ p.id /= r.id
          /\ p.author = target_author /\ r.author = target_author
          /\ InStandalone(p.id) /\ InStandalone(r.id)

\* C6: every returned Thread has members, in non-decreasing order of
\* timestamp.
C6_ThreadsSorted ==
    GroupDone =>
        \A k \in 1..Len(threads) :
            /\ threads[k].tweets /= << >>
            /\ \A a, b \in 1..Len(threads[k].tweets) :
                  a < b => Instant(threads[k].tweets[a].date)
                               <= Instant(threads[k].tweets[b].date)

\* a returned Thread of three posts whose members were appended in another
\* order than that of their timestamps
C6_Witness ==
    /\ GroupDone
    /\ \E k \in 1..Len(threads) :
          /\ Len(threads[k].tweets) >= 3
          /\ \E a, b \in 1..Len(placed) :
                /\ a < b
                /\ placed[a].thread = threads[k].id
                /\ placed[b].thread = threads[k].id
                /\ Instant(PostOf(placed[b].post).date)
                       < Instant(PostOf(placed[a].post).date)

\* C7: the id of every returned Thread is the id of its earliest member, the
\* first of the sorted members, and its date is that member's timestamp.
C7_ThreadIdIsEarliest ==
    GroupDone =>
        \A k \in 1..Len(threads) :
            /\ threads[k].id = threads[k].tweets[1].id
            /\ threads[k].date = threads[k].tweets[1].date

\* C8: every returned Thread has at least two members.
C8_ThreadsMultiPost ==
    GroupDone => \A k \in 1..Len(threads) : Len(threads[k].tweets) >= 2

(* ----------------------- filter_tweets_by_date ------------------------- *)

\* the offsets from UTC a post's timestamp may carry
TzOffsets == {0, 1}

\* line 62: t.date.replace(tzinfo=None) if t.date.tzinfo else t.date; the
\* wall-clock reading is kept and the offset is dropped
TweetDate(t) ==
    IF t.date.tz /= None THEN [t.date EXCEPT !.tz = None] ELSE t.date

\* KeepsTweet with the end of the range excluded
KeepsTweet_EndExclusive(start, end, t) ==
    /\ Instant(start) <= Instant(TweetDate(t))
    /\ Instant(TweetDate(t)) < Instant(end)

\* line 63: start_date <= tweet_date <= end_date, three naive datetimes
KeepsTweet(start, end, t) ==
    /\ Instant(start) <= Instant(TweetDate(t))
    /\ Instant(TweetDate(t)) <= Instant(end)

\* the batches filter_tweets_by_date is called on: timestamps are naive or
\* carry an offset; the range is given by two naive datetimes
FilterPosts(n) ==
    [1..n -> [wall : 1..MaxWall, tz : {None} \cup {Some(o) : o \in TzOffsets}]]

InitFilter ==
    /\ pc = "filter_loop"
    /\ \E n \in 0..MaxFilter : \E f \in FilterPosts(n) :
          tweets = [k \in 1..n |->
                       Tweet(k, "target", "text", [wall |-> f[k].wall, tz |-> f[k].tz],
                             "url", None, FALSE, FALSE, None)]
    /\ \E s, e \in 1..MaxWall : start_date = Naive(s) /\ end_date = Naive(e)
    /\ filtered = << >>
    /\ i = 1
    /\ IdleGroup
    /\ IdleParse
    /\ IdleLater

\* lines 61-64: one iteration of `for t in tweets`
FilterStep ==
    /\ pc = "filter_loop"
    /\ i <= Len(tweets)
    /\ filtered' = IF KeepsTweet(start_date, end_date, tweets[i])
                   THEN Append(filtered, tweets[i])
                   ELSE filtered
    /\ i' = i + 1
    /\ UNCHANGED <<pc, tweets, start_date, end_date, groupVars, parseVars, laterVars>>

\* line 65: return filtered
FilterReturn ==
    /\ pc = "filter_loop"
    /\ i > Len(tweets)
    /\ pc' = "filter_done"
    /\ UNCHANGED <<tweets, i, filterVars, groupVars, parseVars, laterVars>>

NextFilter == FilterStep \/ FilterReturn

SpecFilter == InitFilter /\ [][NextFilter]_vars

(* --------------- properties of filter_tweets_by_date ------------------- *)

FilterDone == pc = "filter_done"

\* the reading of a post's timestamp that the range is compared with
Reading(t) == t.date.wall

\* s is t with the elements at the positions outside `keep` removed
IsSubSeqAt(s, t, keep) ==
    /\ Len(s) = Cardinality(keep)
    /\ \A k \in keep :
          s[Cardinality({m \in keep : m <= k})] = t[k]

\* what filter_tweets_by_date returns: the posts whose timestamp, read as
\* the code reads it, lies in [start, end], both ends included, in the order
\* of the input
C9_Returned ==
    FilterDone =>
        /\ IsSubSeqAt(filtered, tweets,
                      {k \in 1..Len(tweets) :
                          /\ start_date.wall <= Reading(tweets[k])
                          /\ Reading(tweets[k]) <= end_date.wall})
        /\ \A t \in Range(tweets) :
              (Reading(t) = start_date.wall /\ start_date.wall <= end_date.wall)
                  => t \in Range(filtered)
        /\ \A t \in Range(tweets) :
              (Reading(t) = end_date.wall /\ start_date.wall <= end_date.wall)
                  => t \in Range(filtered)

\* C9: filter_tweets_by_date returns exactly the posts whose timestamp t
\* satisfies start <= t <= end, a post at start or at end included, in the
\* order of the input; no step of it changes the input list, a post of it or
\* the range.
C9_InclusiveFilter ==
    /\ []C9_Returned
    /\ [][tweets' = tweets /\ start_date' = start_date /\ end_date' = end_date]_vars

\* a batch with a post at start, a post at end, a post inside and a dropped
\* post between two retained ones
C9_Witness ==
    /\ FilterDone
    /\ start_date.wall < end_date.wall
    /\ \E t \in Range(filtered) : Reading(t) = start_date.wall
    /\ \E t \in Range(filtered) : Reading(t) = end_date.wall
    /\ \E a, b, c \in 1..Len(tweets) :
          /\ a < b /\ b < c
          /\ tweets[a] \in Range(filtered)
          /\ tweets[b] \notin Range(filtered)
          /\ tweets[c] \in Range(filtered)

(* --------------- parse_api_tweet and the parse loop -------------------- *)

\* A payload is a function from the keys it holds to their values.  The
\* value of "datetime" is a record: a None value, an ISO-8601 text with its
\* wall-clock reading and offset, or a text no parser accepts.
RequiredKeys == {"id", "author", "text", "url"}

\* data.get(key, default)
Get(data, key, default) == IF key \in DOMAIN data THEN data[key] ELSE default

NoTime == [kind |-> "none", wall |-> 0, tz |-> None]

IsoTime(wall, offset) == [kind |-> "iso", wall |-> wall, tz |-> Some(offset)]

Garbage == [kind |-> "garbage", wall |-> 0, tz |-> None]

\* TruthyTime taking only a parsable text for a timestamp
TruthyTime_ParsableOnly(v) == v.kind = "iso"

\* Python truthiness of data.get("datetime")
TruthyTime(v) == v.kind /= "none"

\* date_parser.parse(text): the datetime, or an error
DateParse(v) ==
    IF v.kind = "iso"
    THEN [exc |-> None, value |-> [wall |-> v.wall, tz |-> v.tz]]
    ELSE [exc |-> Some("ParserError"), value |-> None]

\* lines 21-38, the body of the try: the exception it raises, or the Tweet
\* it builds.  data["k"] of a missing key raises KeyError.
ParseBody(data, now) ==
    LET dt == Get(data, "datetime", NoTime)
        date == IF TruthyTime(dt) THEN DateParse(dt)
                ELSE [exc |-> None, value |-> Naive(now)]
    IN  IF date.exc /= None THEN [exc |-> date.exc, value |-> None]
        ELSE IF ~ (RequiredKeys \subseteq DOMAIN data)
        THEN [exc |-> Some("KeyError"), value |-> None]
        ELSE [exc |-> None,
              value |-> Some(Tweet(data["id"], data["author"], data["text"],
                                   date.value, data["url"],
                                   Get(data, "videoUrl", None),
                                   Get(data, "isRetweet", FALSE),
                                   Get(data, "isReply", FALSE),
                                   Get(data, "replyToId", None)))]

\* parse_api_tweet whose handler catches the date parser's error only
parse_api_tweet_KeyErrorEscapes(data, now) ==
    LET r == ParseBody(data, now)
    IN  IF r.exc = Some("ParserError") THEN [exc |-> None, value |-> None] ELSE r

\* parse_api_tweet, lines 20-41: `except Exception` turns every error of the
\* body into the result None
parse_api_tweet(data, now) ==
    LET r == ParseBody(data, now)
    IN  IF r.exc /= None THEN [exc |-> None, value |-> None] ELSE r

\* the payloads of a fetched batch: the required keys are all present, all
\* but one, or all missing (the identifier, when present, is the payload's
\* position); "datetime" is missing, None, unparsable or an ISO text;
\* "isRetweet" is missing or a boolean
KeySets ==
    {RequiredKeys, {}} \cup {RequiredKeys \ {k} : k \in RequiredKeys}

TimeChoices == {"missing", "none", "garbage", "iso"}

RetweetChoices == {"missing", "yes", "no"}

Payload(k, keys, time, retweet) ==
    [key \in keys
           \cup (IF time = "missing" THEN {} ELSE {"datetime"})
           \cup (IF retweet = "missing" THEN {} ELSE {"isRetweet"}) |->
        CASE key = "id" -> k
          [] key = "datetime" ->
                (IF time = "none" THEN NoTime
                 ELSE IF time = "garbage" THEN Garbage
                 ELSE IsoTime(1, 0))
          [] key = "isRetweet" -> (retweet = "yes")
          [] key = "author" -> "target"
          [] OTHER -> key]

\* what datetime.now() may read: the instant of the parsable timestamp, or
\* a later one
NowReadings == {1, MaxWall}

InitParse ==
    /\ pc = "parse_loop"
    /\ \E n \in 1..MaxRaw :
          \E f \in [1..n -> [keys : KeySets, time : TimeChoices,
                             retweet : RetweetChoices]] :
             raw_tweets = [k \in 1..n |->
                              Payload(k, f[k].keys, f[k].time, f[k].retweet)]
    /\ tweets = << >>
    /\ i = 1
    /\ IdleGroup
    /\ IdleFilter
    /\ IdleLater

\* src/scraper.py lines 187-192: one iteration of `for data in raw_tweets`;
\* `now` is what datetime.now() reads.  An exception leaving parse_api_tweet
\* would leave run_scraper too.
ParseStep(now) ==
    /\ pc = "parse_loop"
    /\ i <= Len(raw_tweets)
    /\ LET r == parse_api_tweet(raw_tweets[i], now)
       IN  IF r.exc /= None
           THEN pc' = "parse_raised" /\ UNCHANGED <<tweets, i>>
           ELSE /\ tweets' = IF r.value /= None /\ ~ r.value[1].is_retweet
                             THEN Append(tweets, r.value[1])
                             ELSE tweets
                /\ i' = i + 1
                /\ pc' = pc
    /\ UNCHANGED <<raw_tweets, groupVars, filterVars, laterVars>>

\* src/scraper.py line 194: the loop is exhausted
ParseLoopEnd ==
    /\ pc = "parse_loop"
    /\ i > Len(raw_tweets)
    /\ pc' = "parse_done"
    /\ UNCHANGED <<tweets, i, raw_tweets, groupVars, filterVars, laterVars>>

NextParse == (\E now \in NowReadings : ParseStep(now)) \/ ParseLoopEnd

SpecParse == InitParse /\ [][NextParse]_vars

(* ------------------- properties of the parse loop ---------------------- *)

\* a payload holding the four required fields and a timestamp that is
\* missing, None or parsable
WellFormed(data) ==
    /\ RequiredKeys \subseteq DOMAIN data
    /\ "datetime" \in DOMAIN data => data["datetime"].kind /= "garbage"

IsRetweetPayload(data) == "isRetweet" \in DOMAIN data /\ data["isRetweet"]

\* C10: parse_api_tweet answers a payload that lacks a required field with
\* None, raising nothing and building no Post; run_scraper's loop then goes
\* on, and the list it has built after visiting k payloads holds exactly the
\* well-formed (all four required fields, no unparsable timestamp)
\* non-retweet payloads among them, in input order, each as a complete Post.
C10_ParseFailureIsolated ==
    /\ pc /= "parse_raised"
    /\ \A k \in 1..Len(raw_tweets) : \A now \in NowReadings :
          ~ (RequiredKeys \subseteq DOMAIN raw_tweets[k])
              => parse_api_tweet(raw_tweets[k], now) = [exc |-> None, value |-> None]
    /\ pc \in {"parse_loop", "parse_done"} =>
          LET kept == {k \in 1..(i - 1) :
                          WellFormed(raw_tweets[k]) /\ ~ IsRetweetPayload(raw_tweets[k])}
          IN  /\ Len(tweets) = Cardinality(kept)
              /\ \A k \in kept :
                    LET t == tweets[Cardinality({m \in kept : m <= k})]
                        d == raw_tweets[k]
                    IN  /\ t.id = d["id"] /\ t.author = d["author"]
                        /\ t.text = d["text"] /\ t.url = d["url"]
                        /\ ~ t.is_retweet
    /\ pc = "parse_done" => i = Len(raw_tweets) + 1

\* a payload without a required field was visited first and dropped, and a
\* well-formed payload after it was parsed
C10_Witness ==
    /\ pc = "parse_done"
    /\ Len(raw_tweets) >= 2
    /\ ~ (RequiredKeys \subseteq DOMAIN raw_tweets[1])
    /\ WellFormed(raw_tweets[2])
    /\ Len(tweets) = 1
    /\ tweets[1].id = raw_tweets[2]["id"]

\* the payload holds no usable "datetime": the key is missing or its value
\* is None
TimeMissing(data) ==
    "datetime" \in DOMAIN data => data["datetime"].kind = "none"

TimeUnparsable(data) ==
    "datetime" \in DOMAIN data /\ data["datetime"].kind = "garbage"

\* C11 as stated: a visited payload with all required fields and a missing
\* or unparsable timestamp is parsed into a Post dated now, never a failure.
C11_FallbackToNow ==
    \A k \in 1..(i - 1) : \A now \in NowReadings :
        (/\ pc \in {"parse_loop", "parse_done"}
         /\ RequiredKeys \subseteq DOMAIN raw_tweets[k]
         /\ TimeMissing(raw_tweets[k]) \/ TimeUnparsable(raw_tweets[k]))
            => LET r == parse_api_tweet(raw_tweets[k], now)
               IN  r.exc = None /\ r.value /= None /\ r.value[1].date = Naive(now)

\* C11, amended: for a payload with all required fields, a missing (or None)
\* timestamp gives a Post dated now and no failure, while a timestamp that
\* is present but unparsable gives a parse failure: parse_api_tweet returns
\* None, raising nothing, and the loop of run_scraper drops the payload.
C11_MissingIsNowUnparsableFails ==
    /\ \A k \in 1..Len(raw_tweets) : \A now \in NowReadings :
          RequiredKeys \subseteq DOMAIN raw_tweets[k] =>
              LET r == parse_api_tweet(raw_tweets[k], now)
              IN  /\ TimeMissing(raw_tweets[k]) =>
                        /\ r.exc = None /\ r.value /= None
                        /\ r.value[1].date = Naive(now)
                  /\ TimeUnparsable(raw_tweets[k]) =>
                        r = [exc |-> None, value |-> None]
    /\ pc \in {"parse_loop", "parse_done"} =>
          \A t \in Range(tweets) :
              /\ ~ TimeUnparsable(raw_tweets[t.id])
              /\ TimeMissing(raw_tweets[t.id]) =>
                    \E now \in NowReadings : t.date = Naive(now)

\* the first payload had no timestamp and was parsed into a Post dated by a
\* clock reading that no payload carries; the second had an unparsable
\* timestamp and was dropped
C11_Witness ==
    /\ pc = "parse_done"
    /\ Len(raw_tweets) >= 2
    /\ RequiredKeys \subseteq DOMAIN raw_tweets[1] /\ TimeMissing(raw_tweets[1])
    /\ RequiredKeys \subseteq DOMAIN raw_tweets[2] /\ TimeUnparsable(raw_tweets[2])
    /\ Len(tweets) = 1
    /\ tweets[1].id = 1
    /\ tweets[1].date = Naive(MaxWall)

(* --------------- get_tweets_needing_video_download --------------------- *)

\* the longest standalone list and the longest thread list handed to
\* get_tweets_needing_video_download
MaxSel == 2

\* the most members a thread of those lists has
MaxMembers == 1

\* a video_url: None, the empty string, or a URL
VideoUrls == {None, Some(""), Some("video")}

\* has_video looking at the thread's own field only
has_video_OwnOnly(thread) == thread.video_url /= None

\* Thread.has_video, models.py lines 165-167
has_video(thread) ==
    \/ thread.video_url /= None
    \/ \E k \in 1..Len(thread.tweets) : TruthyStr(thread.tweets[k].video_url)

\* a post that carries the given video_url
VideoPost(id, video_url) ==
    Tweet(id, "target", "text", Naive(1), "url", video_url, FALSE, FALSE, None)

\* the thread lists: a thread's own video_url is any of VideoUrls, a
\* member's is None or a URL
SelThreads(n) ==
    [1..n -> [own : VideoUrls,
              members : UNION {[1..m -> {None, Some("video")}] : m \in 1..MaxMembers}]]

InitSelect ==
    /\ pc = "select_tweets"
    /\ \E n \in 0..MaxSel : \E f \in [1..n -> VideoUrls] :
          standalone = [k \in 1..n |-> VideoPost(k, f[k])]
    /\ \E n \in 0..MaxSel : \E f \in SelThreads(n) :
          threads = [k \in 1..n |->
              [Thread(k * (MaxMembers + 1), "target", Naive(1),
                      [m \in 1..Len(f[k].members) |->
                          VideoPost(k * (MaxMembers + 1) + m - 1, f[k].members[m])])
                  EXCEPT !.video_url = f[k].own]]
    /\ tweets = << >>
    /\ i = 1
    /\ target_author = "target"
    /\ in_thread = {}
    /\ placed = << >>
    /\ IdleFilter
    /\ IdleParse
    /\ IdleSelect
    /\ IdleDownload
    /\ IdleTranscribe
    /\ IdleExtract
    /\ IdleLast

\* what the actions of get_tweets_needing_video_download leave alone, its
\* two arguments apart
selectFrame ==
    <<tweets, i, target_author, in_thread, placed, filterVars, parseVars, downloadVars,
      transcribeVars, extractVars, lastVars>>

\* line 152: tweets_with_video = [t for t in standalone_tweets if t.video_url]
SelectTweets ==
    /\ pc = "select_tweets"
    /\ tweets_with_video' = SelectSeq(standalone, LAMBDA t : TruthyStr(t.video_url))
    /\ pc' = "select_threads"
    /\ UNCHANGED <<standalone, threads, threads_with_video, returned, selectFrame>>

\* line 153: threads_with_video = [t for t in threads if t.has_video()]
SelectThreads ==
    /\ pc = "select_threads"
    /\ threads_with_video' = SelectSeq(threads, has_video)
    /\ pc' = "select_return"
    /\ UNCHANGED <<standalone, threads, tweets_with_video, returned, selectFrame>>

\* line 155: return tweets_with_video, threads_with_video
SelectReturn ==
    /\ pc = "select_return"
    /\ returned' = Append(returned, <<tweets_with_video, threads_with_video>>)
    /\ pc' = "select_done"
    /\ UNCHANGED <<standalone, threads, tweets_with_video, threads_with_video, selectFrame>>

\* lines 138-141: a second call, with the lists the first call was given
SelectAgain ==
    /\ pc = "select_done"
    /\ Len(returned) < 2
    /\ tweets_with_video' = << >>
    /\ threads_with_video' = << >>
    /\ pc' = "select_tweets"
    /\ UNCHANGED <<standalone, threads, returned, selectFrame>>

NextSelect == SelectTweets \/ SelectThreads \/ SelectReturn \/ SelectAgain

SpecSelect == InitSelect /\ [][NextSelect]_vars

(* --------- properties of get_tweets_needing_video_download ------------- *)

\* what a call has to return for the lists as they are now
C12_Returned ==
    \A c \in 1..Len(returned) :
        /\ IsSubSeqAt(returned[c][1], standalone,
                      {k \in 1..Len(standalone) :
                          standalone[k].video_url \notin {None, Some("")}})
        /\ IsSubSeqAt(returned[c][2], threads,
                      {k \in 1..Len(threads) :
                          \/ threads[k].video_url /= None
                          \/ \E t \in Range(threads[k].tweets) :
                                t.video_url \notin {None, Some("")}})
        /\ returned[c] = returned[1]

MaxItems == 2

\* the longest list of threads handed to the loops
MaxThreads == 1

\* the most members of a thread handed to the loops
MaxThread == 2

\* the readings of the clock that make a day
TicksPerDay == 2

\* strftime("%Y_%m_%d"): the day a reading of the clock falls on
DayOf(wall) == wall \div TicksPerDay

\* get_filename_prefix: the day of the date, then the id
get_filename_prefix(item) == <<DayOf(item.date.wall), item.id>>

\* a file name is its prefix, the rest of its stem and its suffix
get_video_filename(item) == <<get_filename_prefix(item), "_video", "mp4">>

get_tweet_filename(tweet) == <<get_filename_prefix(tweet), "_twitt", "json">>

get_thread_filename(thread) == <<get_filename_prefix(thread), "_thread_twitt", "json">>

\* output_path.with_suffix('.' + ext)
with_suffix(name, ext) == <<name[1], name[2], ext>>

\* str(self.output_dir / name) and os.path.basename
OutputPath(name) == <<"output_dir", name>>

basename(path) == path[2]

\* the suffixes download_video looks for, in its order
VideoExts == <<"mp4", "mkv", "webm", "mov">>

\* what yt-dlp does in a call of download_video: it reports no video, it
\* raises, it returns having written nothing, or it writes a file with one
\* of these suffixes
DownloadOutcomes == {"no_info", "raises", "no_file", "mp4", "webm"}

\* the outcomes after which download_video finds no file of its own
FailingOutcomes == {"no_info", "raises", "no_file"}

\* what yt-dlp does over the calls download_video makes of it for one item
\* of n members, the calls being made on demand: a call comes after failing
\* ones only
OutcomeRuns(n) ==
    [1..n -> FailingOutcomes]
        \cup UNION {{Append(f, o) : f \in [1..(m - 1) -> FailingOutcomes],
                                   o \in DownloadOutcomes \ FailingOutcomes} :
                    m \in 1..n}

\* open(name, 'w') and write, or the downloader writing its output
WriteFile(fs, name, content) ==
    {f \in fs : f.name /= name} \cup {[name |-> name, content |-> content]}

Exists(fs, name) == \E f \in fs : f.name = name

\* potential_file.rename(final_path)
Rename(fs, from, to) ==
    {f \in fs : f.name /= from /\ f.name /= to}
        \cup {[name |-> to, content |-> f.content] : f \in {g \in fs : g.name = from}}

\* download_video whose except clause does not catch what yt-dlp raises
download_video_Uncaught(tweet_url, output_filename, outcome, fs) ==
    [exc |-> outcome = "raises", path |-> None, files |-> fs]

\* download_video: exc is whether an exception leaves it, path what it
\* returns, files the directory afterwards
download_video(tweet_url, output_filename, outcome, fs) ==
    IF outcome \in {"no_info", "raises"}
    THEN [exc |-> FALSE, path |-> None, files |-> fs]
    ELSE LET written == IF outcome = "no_file" THEN fs
                        ELSE WriteFile(fs, with_suffix(output_filename, outcome), None)
             found == {e \in 1..Len(VideoExts) :
                          Exists(written, with_suffix(output_filename, VideoExts[e]))}
         IN  IF found = {}
             THEN [exc |-> FALSE, path |-> None, files |-> written]
             ELSE LET e == CHOOSE e \in found : \A o \in found : e <= o
                      potential_file == with_suffix(output_filename, VideoExts[e])
                      final_path == with_suffix(output_filename, "mp4")
                  IN  IF VideoExts[e] /= "mp4"
                      THEN [exc |-> FALSE, path |-> Some(OutputPath(final_path)),
                            files |-> Rename(written, potential_file, final_path)]
                      ELSE [exc |-> FALSE, path |-> Some(OutputPath(potential_file)),
                            files |-> written]

\* download_thread_video from member k on; attempts lists the calls of
\* download_video it has made
RECURSIVE TryMembers(_, _, _, _, _)
TryMembers(thread, k, outcomes, fs, attempts) ==
    IF k > Len(thread.tweets)
    THEN [exc |-> FALSE, ok |-> FALSE, item |-> thread, files |-> fs,
          attempts |-> attempts]
    ELSE LET tweet == thread.tweets[k]
         IN  IF TruthyStr(tweet.video_url) \/ tweet.url /= << >>
             THEN LET d == download_video(tweet.url, get_video_filename(thread),
                                          outcomes[k], fs)
                      made == Append(attempts, [member |-> k, url |-> tweet.url,
                                                exc |-> d.exc, path |-> d.path])
                  IN  IF d.exc
                      THEN [exc |-> TRUE, ok |-> FALSE, item |-> thread,
                            files |-> d.files, attempts |-> made]
                      ELSE IF Truthy(d.path)
                      THEN [exc |-> FALSE, ok |-> TRUE,
                            item |-> [thread EXCEPT
                                        !.video_file = Some(basename(d.path[1]))],
                            files |-> d.files, attempts |-> made]
                      ELSE TryMembers(thread, k + 1, outcomes, d.files, made)
             ELSE TryMembers(thread, k + 1, outcomes, fs, attempts)

\* download_thread_video giving up after the first member
download_thread_video_FirstOnly(thread, outcomes, fs) ==
    LET r == TryMembers([thread EXCEPT !.tweets = <<Head(@)>>], 1, outcomes, fs, << >>)
    IN  [r EXCEPT !.item.tweets = thread.tweets]

download_thread_video(thread, outcomes, fs) ==
    TryMembers(thread, 1, outcomes, fs, << >>)

\* download_tweet_video: both branches make the same call
download_tweet_video(tweet, outcome, fs) ==
    LET d == download_video(tweet.url, get_video_filename(tweet), outcome, fs)
        made == <<[member |-> 1, url |-> tweet.url, exc |-> d.exc, path |-> d.path]>>
    IN  IF d.exc
        THEN [exc |-> TRUE, ok |-> FALSE, item |-> tweet, files |-> d.files,
              attempts |-> made]
        ELSE IF Truthy(d.path)
        THEN [exc |-> FALSE, ok |-> TRUE,
              item |-> [tweet EXCEPT !.video_file = Some(basename(d.path[1]))],
              files |-> d.files, attempts |-> made]
        ELSE [exc |-> FALSE, ok |-> FALSE, item |-> tweet, files |-> d.files,
              attempts |-> made]

\* save_tweet_json and save_thread_json: to_dict(), of which the sidecar
\* keeps here the video_file, written to the file of that name
save_json(item, name, fs) ==
    [files |-> WriteFile(fs, name, item.video_file), path |-> OutputPath(name)]

\* AfterDownload saving the item as it was before the download
AfterDownload_SavedBefore(d, name) ==
    LET video_path == IF d.ok THEN Some(OutputPath(d.item.video_file[1])) ELSE None
        saved == save_json([d.item EXCEPT !.video_file = None], name, d.files)
    IN  [exc |-> d.exc, item |-> d.item, files |-> saved.files,
         success |-> video_path /= None, video_path |-> video_path,
         json_path |-> Some(saved.path), attempts |-> d.attempts]

\* what process_tweet and process_thread do once the download, d, is over
AfterDownload(d, name) ==
    IF d.exc
    THEN [exc |-> TRUE, item |-> d.item, files |-> d.files, success |-> FALSE,
          video_path |-> None, json_path |-> None, attempts |-> d.attempts]
    ELSE LET video_path == IF d.ok THEN Some(OutputPath(d.item.video_file[1]))
                           ELSE None
             saved == save_json(d.item, name, d.files)
         IN  [exc |-> FALSE, item |-> d.item, files |-> saved.files,
              success |-> video_path /= None, video_path |-> video_path,
              json_path |-> Some(saved.path), attempts |-> d.attempts]

process_tweet(tweet, outcome, fs) ==
    AfterDownload(download_tweet_video(tweet, outcome, fs), get_tweet_filename(tweet))

process_thread(thread, outcomes, fs) ==
    AfterDownload(IF has_video(thread)
                  THEN download_thread_video(thread, outcomes, fs)
                  ELSE [exc |-> FALSE, ok |-> FALSE, item |-> thread, files |-> fs,
                        attempts |-> << >>],
                  get_thread_filename(thread))

\* the else branch of the loops: json_path = save_..._json(item)
JustSave(item, name, fs) ==
    LET saved == save_json(item, name, fs)
    IN  [exc |-> FALSE, item |-> item, files |-> saved.files, success |-> FALSE,
         video_path |-> None, json_path |-> Some(saved.path), attempts |-> << >>]

\* the canonical URL of the post with this id, twitter_api.py line 256
UrlOf(id) == <<"https://x.com/target/status/", id>>

ProcPost(id, video_url) ==
    Tweet(id, "target", "text", Naive(1), UrlOf(id), video_url, FALSE, FALSE, None)

\* a thread as group_tweets_into_threads leaves it: video_url is that of the
\* first member that has one
ProcThread(first, member_urls) ==
    LET thread == Thread(first, "target", Naive(1),
                         [m \in 1..Len(member_urls) |->
                             ProcPost(first + m - 1, member_urls[m])])
    IN  [thread EXCEPT !.video_url = get_first_video_url(thread)]

InitDownload ==
    /\ pc = "proc_start"
    /\ \E n \in 0..MaxItems : \E f \in [1..n -> {None, Some("video")}] :
          tweets_to_process = [k \in 1..n |-> ProcPost(k, f[k])]
    /\ \E n \in 0..MaxThreads :
       \E f \in [1..n -> UNION {[1..m -> {None, Some("video")}] : m \in 1..MaxThread}] :
          threads_to_process =
              [k \in 1..n |-> ProcThread(MaxItems + (k - 1) * MaxThread + 1, f[k])]
    /\ video_success_count = 0
    /\ video_fail_count = 0
    /\ json_count = 0
    /\ files = {}
    /\ results = << >>
    /\ tweets = << >>
    /\ i = 1
    /\ IdleGroup
    /\ IdleFilter
    /\ IdleParse
    /\ IdleSelect
    /\ IdleTranscribe
    /\ IdleExtract
    /\ IdleLast

downloadFrame ==
    <<tweets, groupVars, filterVars, parseVars, selectVars, transcribeVars, extractVars,
      lastVars>>

\* lines 221-223: nothing to process
ProcNothing ==
    /\ pc = "proc_start"
    /\ tweets_to_process = << >> /\ threads_to_process = << >>
    /\ pc' = "proc_nothing"
    /\ UNCHANGED <<i, downloadVars, downloadFrame>>

\* lines 230-232
ProcStart ==
    /\ pc = "proc_start"
    /\ ~(tweets_to_process = << >> /\ threads_to_process = << >>)
    /\ video_success_count' = 0
    /\ video_fail_count' = 0
    /\ json_count' = 0
    /\ i' = 1
    /\ pc' = "proc_tweets"
    /\ UNCHANGED <<tweets_to_process, threads_to_process, files, results, downloadFrame>>

\* Counted leaving a failed download out of video_fail_count
Counted_FailureUncounted(kind, item, called, r) ==
    /\ files' = r.files
    /\ results' = Append(results,
                         [kind |-> kind, id |-> item.id, called |-> called,
                          exc |-> r.exc, success |-> r.success,
                          video_path |-> r.video_path, json_path |-> r.json_path,
                          attempts |-> r.attempts])
    /\ video_success_count' =
          IF called /\ r.success THEN video_success_count + 1
          ELSE video_success_count
    /\ json_count' = json_count + 1
    /\ i' = i + 1
    /\ UNCHANGED <<pc, video_fail_count>>

\* the rest of an iteration of either loop, r being what the iteration
\* obtained and called whether it went through process_tweet / process_thread
Counted(kind, item, called, r) ==
    /\ files' = r.files
    /\ results' = Append(results,
                         [kind |-> kind, id |-> item.id, called |-> called,
                          exc |-> r.exc, success |-> r.success,
                          video_path |-> r.video_path, json_path |-> r.json_path,
                          attempts |-> r.attempts])
    /\ IF r.exc
       THEN /\ pc' = "proc_raised"
            /\ UNCHANGED <<i, video_success_count, video_fail_count, json_count>>
       ELSE /\ video_success_count' =
                  IF called /\ r.success THEN video_success_count + 1
                  ELSE video_success_count
            /\ video_fail_count' =
                  IF called /\ ~r.success THEN video_fail_count + 1
                  ELSE video_fail_count
            /\ json_count' = IF Truthy(r.json_path) THEN json_count + 1 ELSE json_count
            /\ i' = i + 1
            /\ pc' = pc

\* lines 235-253: one iteration of the loop over tweets_to_process
ProcessTweet ==
    /\ pc = "proc_tweets"
    /\ i <= Len(tweets_to_process)
    /\ LET tweet == tweets_to_process[i]
       IN  \E outcome \in IF TruthyStr(tweet.video_url) THEN DownloadOutcomes
                           ELSE {"no_info"} :
             LET called == TruthyStr(tweet.video_url)
             IN  \E r \in {IF called THEN process_tweet(tweet, outcome, files)
                           ELSE JustSave(tweet, get_tweet_filename(tweet), files)} :
                 /\ Counted("tweet", tweet, called, r)
                 /\ tweets_to_process' = [tweets_to_process EXCEPT ![i] = r.item]
    /\ UNCHANGED <<threads_to_process, downloadFrame>>

\* line 235: the loop over tweets_to_process is exhausted
TweetsLoopEnd ==
    /\ pc = "proc_tweets"
    /\ i > Len(tweets_to_process)
    /\ i' = 1
    /\ pc' = "proc_threads"
    /\ UNCHANGED <<downloadVars, downloadFrame>>

\* lines 256-274: one iteration of the loop over threads_to_process
ProcessThread ==
    /\ pc = "proc_threads"
    /\ i <= Len(threads_to_process)
    /\ LET thread == threads_to_process[i]
       IN  \E outcomes \in IF has_video(thread) THEN OutcomeRuns(Len(thread.tweets))
                            ELSE {<< >>} :
             LET called == has_video(thread)
             IN  \E r \in {IF called THEN process_thread(thread, outcomes, files)
                           ELSE JustSave(thread, get_thread_filename(thread), files)} :
                 /\ Counted("thread", thread, called, r)
                 /\ threads_to_process' = [threads_to_process EXCEPT ![i] = r.item]
    /\ UNCHANGED <<tweets_to_process, downloadFrame>>

\* lines 276-284: the loop over threads_to_process is exhausted, the summary
ThreadsLoopEnd ==
    /\ pc = "proc_threads"
    /\ i > Len(threads_to_process)
    /\ pc' = "proc_done"
    /\ UNCHANGED <<i, downloadVars, downloadFrame>>

NextDownload ==
    \/ ProcNothing
    \/ ProcStart
    \/ ProcessTweet
    \/ TweetsLoopEnd
    \/ ProcessThread
    \/ ThreadsLoopEnd

SpecDownload == InitDownload /\ [][NextDownload]_vars

(* ------------- properties of the downloader and the loops -------------- *)

\* the item an entry of results is about
ItemOf(r) ==
    LET items == IF r.kind = "tweet" THEN tweets_to_process ELSE threads_to_process
    IN  items[CHOOSE k \in 1..Len(items) : items[k].id = r.id]

SidecarOf(r) ==
    IF r.kind = "tweet" THEN get_tweet_filename(ItemOf(r))
    ELSE get_thread_filename(ItemOf(r))

\* no call of download_video made for the item returned a file
DownloadFailed(r) == \A k \in 1..Len(r.attempts) : r.attempts[k].path = None

\* C13: for every post or Thread with video handed to process_tweet /
\* process_thread for which the external downloader fails (it reports no
\* video, raises, or leaves no output file), the call raises nothing, the
\* sidecar of the item is in the output directory and the call has returned
\* (False, None, the path of that sidecar).
C13_DownloadFailureStillSaves ==
    /\ pc /= "proc_raised"
    /\ \A k \in 1..Len(results) :
          (results[k].called /\ DownloadFailed(results[k])) =>
              /\ ~results[k].exc
              /\ results[k].success = FALSE
              /\ results[k].video_path = None
              /\ results[k].json_path = Some(OutputPath(SidecarOf(results[k])))
              /\ Exists(files, SidecarOf(results[k]))

\* the loops are over; a post with video and a thread of two members with
\* video both had every download fail, and both sidecars are there
C13_Witness ==
    /\ pc = "proc_done"
    /\ \E a, b \in 1..Len(results) :
          /\ results[a].kind = "tweet" /\ results[a].called
          /\ DownloadFailed(results[a])
          /\ Exists(files, SidecarOf(results[a]))
          /\ results[b].kind = "thread" /\ results[b].called
          /\ Len(results[b].attempts) = 2 /\ DownloadFailed(results[b])
          /\ Exists(files, SidecarOf(results[b]))

\* C14: the calls of download_video that download_thread_video makes for a
\* Thread are on the canonical URLs of its members, in the order of the
\* member sequence from the first on, one call a member; a call is made only
\* after all the earlier ones failed, so none follows a success; the video is
\* reported downloaded exactly when the last call succeeded, and failure is
\* reported only when every member was tried and failed.
C14_MembersTriedInOrder ==
    \A n \in 1..Len(results) :
        (results[n].kind = "thread" /\ results[n].called) =>
            LET r == results[n]
                thread == ItemOf(r)
            IN  /\ Len(r.attempts) \in 1..Len(thread.tweets)
                /\ \A k \in 1..Len(r.attempts) :
                      /\ r.attempts[k].member = k
                      /\ r.attempts[k].url = thread.tweets[k].url
                      /\ k < Len(r.attempts) => r.attempts[k].path = None
                /\ r.success <=> r.attempts[Len(r.attempts)].path /= None
                /\ ~r.success =>
                      /\ Len(r.attempts) = Len(thread.tweets)
                      /\ DownloadFailed(r)

\* a thread of two members: the first member failed and the second gave the
\* video; another run of the loops in which both failed is C13_Witness
C14_Witness ==
    \E n \in 1..Len(results) :
        /\ results[n].kind = "thread" /\ results[n].called
        /\ results[n].success
        /\ Len(results[n].attempts) = 2
        /\ results[n].attempts[1].path = None
        /\ ItemOf(results[n]).video_file /= None

\* the items of the two lists that have video
WithVideo ==
    {k \in 1..Len(tweets_to_process) : TruthyStr(tweets_to_process[k].video_url)}
        \cup {Len(tweets_to_process) + k : k \in
                 {m \in 1..Len(threads_to_process) : has_video(threads_to_process[m])}}

\* C15: the loops of run_scraper are never left early; while they run, the
\* items processed so far are the first items of tweets_to_process followed
\* by threads_to_process, each once and in order; when they are over every
\* item has been processed, video_success_count + video_fail_count is the
\* number of items that have video, and json_count the number of items.
C15_EveryItemProcessedOnce ==
    LET all == tweets_to_process \o threads_to_process
    IN  /\ pc /= "proc_raised"
        /\ Len(results) <= Len(all)
        /\ \A k \in 1..Len(results) :
              /\ results[k].id = all[k].id
              /\ results[k].kind = IF k <= Len(tweets_to_process) THEN "tweet"
                                   ELSE "thread"
        /\ pc = "proc_done" =>
              /\ Len(results) = Len(all)
              /\ video_success_count + video_fail_count = Cardinality(WithVideo)
              /\ json_count = Len(all)

\* the loops are over: the first post's download failed, the second post and
\* the thread after it were processed all the same
C15_Witness ==
    /\ pc = "proc_done"
    /\ Len(tweets_to_process) = 2 /\ Len(threads_to_process) = 1
    /\ results[1].called /\ ~results[1].success
    /\ results[2].called /\ results[2].success
    /\ results[3].called
    /\ video_fail_count >= 1 /\ video_success_count >= 1
    /\ json_count = 3

(* ---------------------- OpenAITranscriber.transcribe ------------------- *)

FALLBACK_MODEL == "whisper-1"

DEFAULT_BETTER_MODEL == "gpt-4o-mini-transcribe"

MAX_FILE_SIZE == 25 * 1024 * 1024

\* the sizes an audio file has here: around the ceiling
FileSizes == {MAX_FILE_SIZE - 1, MAX_FILE_SIZE, MAX_FILE_SIZE + 1}

\* the text of an error is the set of the phrases it contains; these are
\* the texts of the errors the service raises
ServiceErrors ==
    {{"Model", "Not Found"}, {"model", "does not exist"}, {"invalid", "model"},
     {"model", "overloaded"}, {"invalid", "api key"}, {"connection", "timed out"}}

\* str.lower on a phrase
LowerPhrase(p) ==
    CASE p = "Model" -> "model"
      [] p = "Not Found" -> "not found"
      [] OTHER -> p

\* msg = str(e).lower()
Lower(text) == {LowerPhrase(p) : p \in text}

\* the test of line 397 looking at the text as the service wrote it
ModelUnavailable_CaseSensitive(e) ==
    /\ "model" \in e
    /\ ("not found" \in e \/ "does not exist" \in e \/ "invalid" \in e)

\* the test of line 397 taking any mention of the model
ModelUnavailable_AnyMention(e) == "model" \in Lower(e)

\* lines 396-398
ModelUnavailable(e) ==
    LET msg == Lower(e)
    IN  /\ "model" \in msg
        /\ ("not found" \in msg \/ "does not exist" \in msg \/ "invalid" \in msg)

\* the size check of line 366 rejecting the ceiling itself
TooLarge_AtCeiling(size) == size >= MAX_FILE_SIZE

\* line 366
TooLarge(size) == size > MAX_FILE_SIZE

FileExists(name) == \E f \in audio_files : f.name = name

SizeOf(name) == (CHOOSE f \in audio_files : f.name = name).size

\* a file written, replacing the one of that name
WithFile(fs, name, size) ==
    {f \in fs : f.name /= name} \cup {[name |-> name, size |-> size]}

Returning == <<[kind |-> "return", error |-> {}]>>

Raising(e) == <<[kind |-> "raise", error |-> e]>>

InitTranscribe ==
    /\ pc = "tr_enter"
    /\ selected_model \in {DEFAULT_BETTER_MODEL, FALLBACK_MODEL}
    /\ do_clean \in BOOLEAN
    /\ do_trim \in BOOLEAN
    /\ \/ audio_files = {}
       \/ \E size \in FileSizes : audio_files = {[name |-> "audio", size |-> size]}
    /\ upload_path = "audio"
    /\ file_size = << >>
    /\ temp_clean_path = << >>
    /\ created = {}
    /\ service_calls = << >>
    /\ pending = << >>
    /\ remove_failed = FALSE
    /\ tweets = << >>
    /\ i = 1
    /\ IdleGroup
    /\ IdleFilter
    /\ IdleParse
    /\ IdleSelect
    /\ IdleDownload
    /\ IdleExtract
    /\ IdleLast

transcribeFrame ==
    <<tweets, i, groupVars, filterVars, parseVars, selectVars, downloadVars, extractVars,
      lastVars>>

\* lines 342-353: the audio file has to exist
TrEnter ==
    /\ pc = "tr_enter"
    /\ IF ~FileExists("audio")
       THEN /\ pending' = Raising({"Audio file not found"})
            /\ pc' = "tr_raised"
       ELSE /\ pending' = pending
            /\ pc' = IF do_clean \/ do_trim THEN "tr_clean" ELSE "tr_size"
    /\ UNCHANGED <<selected_model, do_clean, do_trim, audio_files, upload_path,
                   temp_clean_path, created, service_calls, remove_failed,
                   file_size, transcribeFrame>>

\* lines 355-362 and clean_audio_file: mkstemp creates the output file, then
\* FFmpeg runs; when it fails clean_audio_file raises and temp_clean_path is
\* not assigned
TrClean ==
    /\ pc = "tr_clean"
    /\ created' = created \cup {"tmp"}
    /\ \/ /\ audio_files' = WithFile(audio_files, "tmp", 0)
          /\ pending' = Raising({"FFmpeg failed to clean audio"})
          /\ pc' = "tr_finally"
          /\ UNCHANGED <<temp_clean_path, upload_path>>
       \/ \E size \in FileSizes :
             /\ audio_files' = WithFile(audio_files, "tmp", size)
             /\ temp_clean_path' = <<"tmp">>
             /\ upload_path' = "tmp"
             /\ pc' = "tr_size"
             /\ pending' = pending
    /\ UNCHANGED <<selected_model, do_clean, do_trim, service_calls, remove_failed,
                   file_size, transcribeFrame>>

\* lines 364-370
TrSize ==
    /\ pc = "tr_size"
    /\ file_size' = <<SizeOf(upload_path)>>
    /\ IF TooLarge(file_size'[1])
       THEN /\ pending' = Raising({"Audio file is too large"})
            /\ pc' = "tr_finally"
       ELSE /\ pending' = pending
            /\ pc' = "tr_primary"
    /\ UNCHANGED <<selected_model, do_clean, do_trim, audio_files, upload_path,
                   temp_clean_path, created, service_calls, remove_failed,
                   transcribeFrame>>

\* lines 392-404, the call with the selected model
TrPrimary ==
    /\ pc = "tr_primary"
    /\ \/ /\ service_calls' = Append(service_calls,
                                     [model |-> selected_model, ok |-> TRUE, error |-> {}])
          /\ pending' = Returning
          /\ pc' = "tr_finally"
       \/ \E e \in ServiceErrors :
             /\ service_calls' = Append(service_calls,
                                        [model |-> selected_model, ok |-> FALSE, error |-> e])
             /\ IF selected_model /= FALLBACK_MODEL /\ ModelUnavailable(e)
                THEN /\ pending' = pending
                     /\ pc' = "tr_fallback"
                ELSE /\ pending' = Raising(e)
                     /\ pc' = "tr_finally"
    /\ UNCHANGED <<selected_model, do_clean, do_trim, audio_files, upload_path,
                   temp_clean_path, created, remove_failed, file_size, transcribeFrame>>

\* line 402, the call with the fallback model
TrFallback ==
    /\ pc = "tr_fallback"
    /\ \/ /\ service_calls' = Append(service_calls,
                                     [model |-> FALLBACK_MODEL, ok |-> TRUE, error |-> {}])
          /\ pending' = Returning
       \/ \E e \in ServiceErrors :
             /\ service_calls' = Append(service_calls,
                                        [model |-> FALLBACK_MODEL, ok |-> FALSE, error |-> e])
             /\ pending' = Raising(e)
    /\ pc' = "tr_finally"
    /\ UNCHANGED <<selected_model, do_clean, do_trim, audio_files, upload_path,
                   temp_clean_path, created, remove_failed, file_size, transcribeFrame>>

\* lines 429-434, then the return or the raise that was pending
TrFinally ==
    /\ pc = "tr_finally"
    /\ IF Truthy(temp_clean_path) /\ FileExists(temp_clean_path[1])
       THEN \/ /\ audio_files' = {f \in audio_files : f.name /= temp_clean_path[1]}
               /\ remove_failed' = remove_failed
            \/ /\ audio_files' = audio_files
               /\ remove_failed' = TRUE
       ELSE UNCHANGED <<audio_files, remove_failed>>
    /\ pc' = IF pending[1].kind = "return" THEN "tr_returned" ELSE "tr_raised"
    /\ UNCHANGED <<selected_model, do_clean, do_trim, upload_path, temp_clean_path,
                   created, service_calls, pending, file_size, transcribeFrame>>

NextTranscribe == TrEnter \/ TrClean \/ TrSize \/ TrPrimary \/ TrFallback \/ TrFinally

SpecTranscribe == InitTranscribe /\ [][NextTranscribe]_vars

(* ------------------------ properties of transcribe --------------------- *)

\* the text, whatever its case, names the model and says it is not found,
\* does not exist or is invalid
IndicatesModelUnavailable(e) ==
    /\ \E p \in e : LowerPhrase(p) = "model"
    /\ \E p \in e : LowerPhrase(p) \in {"not found", "does not exist", "invalid"}

PrimaryFailed == Len(service_calls) >= 1 /\ ~service_calls[1].ok

TrOver == pc \in {"tr_returned", "tr_raised"}

\* C16: the service is called at most twice in an invocation of transcribe,
\* first with the selected model; when that call fails with a text that
\* indicates the model is unavailable and the selected model is not
\* 'whisper-1', the only thing that follows is one call with 'whisper-1':
\* transcribe returns if that call succeeds and raises its error if it fails.
C16_FallbackOnce ==
    /\ Len(service_calls) <= 2
    /\ Len(service_calls) >= 1 => service_calls[1].model = selected_model
    /\ (/\ PrimaryFailed
        /\ IndicatesModelUnavailable(service_calls[1].error)
        /\ selected_model /= "whisper-1") =>
           \/ pc = "tr_fallback" /\ Len(service_calls) = 1
           \/ /\ Len(service_calls) = 2
              /\ service_calls[2].model = "whisper-1"
              /\ pc \in {"tr_finally", "tr_returned", "tr_raised"}
              /\ pending = IF service_calls[2].ok THEN Returning
                           ELSE Raising(service_calls[2].error)
              /\ TrOver => (pc = "tr_returned" <=> service_calls[2].ok)

\* transcribe has raised the error of the fallback call, made after the
\* service answered "Model ... Not Found" to the primary call
C16_Witness ==
    /\ pc = "tr_raised"
    /\ Len(service_calls) = 2
    /\ service_calls[1].error = {"Model", "Not Found"}
    /\ ~service_calls[2].ok
    /\ pending = Raising(service_calls[2].error)

\* C17: when the call with the primary model fails with a text that does not
\* indicate an unavailable model, no other call of the service is made and
\* transcribe raises that error.
C17_OtherErrorsPropagate ==
    (PrimaryFailed /\ ~IndicatesModelUnavailable(service_calls[1].error)) =>
        /\ Len(service_calls) = 1
        /\ pc \in {"tr_finally", "tr_raised"}
        /\ pending = Raising(service_calls[1].error)

\* transcribe has raised after one call that failed with a text that names
\* the model without saying it is unavailable
C17_Witness ==
    /\ pc = "tr_raised"
    /\ selected_model /= "whisper-1"
    /\ Len(service_calls) = 1
    /\ service_calls[1].error = {"model", "overloaded"}

\* C18: when transcribe, called with cleanup or trimming enabled, has
\* returned or raised, and no removal of a file failed, no temporary file
\* it created exists.
C18_NoTempFileLeft ==
    (TrOver /\ (do_clean \/ do_trim) /\ ~remove_failed) =>
        \A name \in created : ~FileExists(name)

\* C19: the size read is that of the cleaned file when cleanup ran and of
\* the original otherwise; when it is above 25*1024*1024 transcribe raises
\* its size error and the service is never called; when it is exactly
\* 25*1024*1024 the size error is not raised and the service is called.
C19_SizeCeiling ==
    Truthy(file_size) =>
        /\ upload_path = IF do_clean \/ do_trim THEN "tmp" ELSE "audio"
        /\ FileExists(upload_path) => file_size[1] = SizeOf(upload_path)
        /\ file_size[1] > 25 * 1024 * 1024 =>
              /\ service_calls = << >>
              /\ pc \in {"tr_finally", "tr_raised"}
              /\ pending = Raising({"Audio file is too large"})
        /\ file_size[1] <= 25 * 1024 * 1024 =>
              /\ pending /= Raising({"Audio file is too large"})
              /\ TrOver => Len(service_calls) >= 1

\* a cleaned file of exactly the ceiling was uploaded and transcribed; the
\* original was above the ceiling
C19_Witness ==
    /\ pc = "tr_returned"
    /\ file_size = <<25 * 1024 * 1024>>
    /\ upload_path = "tmp"
    /\ \E f \in audio_files : f.name = "audio" /\ f.size > 25 * 1024 * 1024
    /\ Len(service_calls) = 1

(* ---------------------- extract_audio_from_videos ---------------------- *)

\* the number of filename prefixes the videos and voice files have
MaxVideos == 2

\* a video is <prefix>.mp4 or <prefix>_video.mp4: a file name is its prefix
\* and what follows it
VideoPaths == [prefix : 1..MaxVideos, rest : {".mp4", "_video.mp4"}]

\* the order of sorted(): by the prefix, "1.mp4" before "1_video.mp4"
PathKey(v) == 2 * v.prefix + (IF v.rest = "_video.mp4" THEN 1 ELSE 0)

\* find_video_files: sorted(videos)
SortedPaths(S) ==
    [k \in 1..Cardinality(S) |->
        CHOOSE v \in S : Cardinality({w \in S : PathKey(w) < PathKey(v)}) = k - 1]

\* lines 155-160
VoiceName(video) ==
    LET video_name == [prefix |-> video.prefix,
                       rest |-> IF video.rest = "_video.mp4" THEN "_video" ELSE ""]
    IN  IF video_name.rest = "_video"
        THEN [prefix |-> video_name.prefix, rest |-> "_voice.wav"]
        ELSE \* nothing follows the prefix in this stem
             [prefix |-> video_name.prefix, rest |-> "_voice.wav"]

VoiceExists(dir, name) == \E f \in dir : f.name = name

\* the content of the voice file of that name, None when there is none
VoiceData(dir, name) ==
    IF VoiceExists(dir, name) THEN Some((CHOOSE f \in dir : f.name = name).data)
    ELSE None

\* FFmpeg run with -y on that output: it writes it, or fails before it has
\* touched it, or fails having truncated it
FfmpegOutcomes == {"ok", "fails", "fails_truncated"}

\* the test of line 167 never skipping
ShouldSkip_Never(skip, dir, name) == FALSE

\* line 167
ShouldSkip(skip, dir, name) == skip /\ VoiceExists(dir, name)

\* AudioExtractor.extract_audio with an output_path, the video being there;
\* a written file holds the number of the run that wrote it, a truncated one -1
extract_audio(output_path, outcome, dir, run) ==
    [exc |-> outcome /= "ok",
     dir |-> IF outcome = "fails" THEN dir
             ELSE {f \in dir : f.name /= output_path}
                      \cup {[name |-> output_path,
                             data |-> IF outcome = "ok" THEN run ELSE -1]}]

InitExtract ==
    /\ pc = "extract_start"
    /\ \E S \in SUBSET VideoPaths : video_files = SortedPaths(S)
    /\ skip_existing \in BOOLEAN
    /\ \E P \in SUBSET (1..MaxVideos) :
          out_dir = {[name |-> [prefix |-> p, rest |-> "_voice.wav"], data |-> 0] :
                        p \in P}
    /\ ffmpeg_runs = << >>
    /\ successful = 0
    /\ skipped = 0
    /\ failed = 0
    /\ extract_log = << >>
    /\ tweets = << >>
    /\ i = 1
    /\ IdleGroup
    /\ IdleFilter
    /\ IdleParse
    /\ IdleSelect
    /\ IdleDownload
    /\ IdleTranscribe
    /\ IdleLast

extractFrame ==
    <<tweets, groupVars, filterVars, parseVars, selectVars, downloadVars,
      transcribeVars, lastVars>>

\* lines 133-137: no video found
ExtractNothing ==
    /\ pc = "extract_start"
    /\ video_files = << >>
    /\ pc' = "extract_nothing"
    /\ UNCHANGED <<i, extractVars, extractFrame>>

\* lines 139-149
ExtractStart ==
    /\ pc = "extract_start"
    /\ video_files /= << >>
    /\ successful' = 0
    /\ skipped' = 0
    /\ failed' = 0
    /\ i' = 1
    /\ pc' = "extract_loop"
    /\ UNCHANGED <<video_files, skip_existing, out_dir, ffmpeg_runs, extract_log,
                   extractFrame>>

\* lines 151-186: one iteration of the loop
ExtractStep ==
    /\ pc = "extract_loop"
    /\ i <= Len(video_files)
    /\ LET video_path == video_files[i]
           voice_path == VoiceName(video_path)
       IN  IF ShouldSkip(skip_existing, out_dir, voice_path)
           THEN /\ skipped' = skipped + 1
                /\ extract_log' = Append(extract_log,
                                         [video |-> video_path, voice |-> voice_path,
                                          before |-> VoiceData(out_dir, voice_path),
                                          counted |-> "skipped"])
                /\ UNCHANGED <<out_dir, ffmpeg_runs, successful, failed>>
           ELSE \E outcome \in FfmpegOutcomes :
                \E r \in {extract_audio(voice_path, outcome, out_dir,
                                        Len(ffmpeg_runs) + 1)} :
                   /\ ffmpeg_runs' = Append(ffmpeg_runs,
                                            [iteration |-> i, input |-> video_path,
                                             output |-> voice_path])
                   /\ out_dir' = r.dir
                   /\ successful' = IF r.exc THEN successful ELSE successful + 1
                   /\ failed' = IF r.exc THEN failed + 1 ELSE failed
                   /\ extract_log' = Append(extract_log,
                                            [video |-> video_path, voice |-> voice_path,
                                             before |-> VoiceData(out_dir, voice_path),
                                             counted |-> IF r.exc THEN "failed"
                                                         ELSE "successful"])
                   /\ UNCHANGED skipped
    /\ i' = i + 1
    /\ UNCHANGED <<pc, video_files, skip_existing, extractFrame>>

\* lines 188-193: the loop is exhausted, the summary
ExtractEnd ==
    /\ pc = "extract_loop"
    /\ i > Len(video_files)
    /\ pc' = "extract_done"
    /\ UNCHANGED <<i, extractVars, extractFrame>>

NextExtract == ExtractNothing \/ ExtractStart \/ ExtractStep \/ ExtractEnd

SpecExtract == InitExtract /\ [][NextExtract]_vars

(* --------------- properties of extract_audio_from_videos --------------- *)

\* the runs of FFmpeg made in the k-th iteration of the loop
RunsIn(k) == {r \in 1..Len(ffmpeg_runs) : ffmpeg_runs[r].iteration = k}

\* C20: a video whose voice file ({prefix}_voice.wav) is there when its turn
\* comes: with skip_existing, FFmpeg is not run for it, it is counted as
\* skipped, and the voice file keeps the content it had; without
\* skip_existing, FFmpeg is run once for it, on that video and that voice
\* path.  skipped is the number of videos so counted.
C20_SkipExisting ==
    /\ \A k \in 1..Len(extract_log) :
          LET e == extract_log[k]
          IN  e.before /= None =>
                 /\ e.voice = [prefix |-> e.video.prefix, rest |-> "_voice.wav"]
                 /\ skip_existing =>
                       /\ RunsIn(k) = {}
                       /\ e.counted = "skipped"
                       /\ VoiceData(out_dir, e.voice) = e.before
                 /\ ~skip_existing =>
                       /\ Cardinality(RunsIn(k)) = 1
                       /\ \A r \in RunsIn(k) :
                             /\ ffmpeg_runs[r].input = e.video
                             /\ ffmpeg_runs[r].output = e.voice
                       /\ e.counted /= "skipped"
    /\ skipped = Cardinality({k \in 1..Len(extract_log) :
                                 extract_log[k].counted = "skipped"})

\* with skip_existing: 1_video.mp4 was extracted, then 2_video.mp4, whose
\* voice file was there from the start, was skipped
C20_Witness ==
    /\ pc = "extract_done"
    /\ skip_existing
    /\ skipped = 1 /\ successful = 1
    /\ Len(extract_log) = 2
    /\ extract_log[1].before = None
    /\ extract_log[2].before = Some(0)
    /\ extract_log[2].video = [prefix |-> 2, rest |-> "_video.mp4"]
    /\ Len(ffmpeg_runs) = 1

(* ------------------------ transcribe_audio_files ----------------------- *)

\* the number of filename prefixes the audio files and JSON files have
MaxAudio == 2

\* a JSON object is a function from its keys; Transcription.to_dict()
TranscriptDict == [k \in {"text", "language"} |-> IF k = "text" THEN "salam" ELSE "fa"]

\* what to_dict() of the post or thread of that prefix gave when the sidecar
\* was saved: the keys other than 'transcript'
SidecarDict(p) == [k \in {"id", "video_file"} |-> IF k = "id" THEN <<p>> ELSE << >>]

\* a JSON file holds an object, or bytes that json.load cannot decode
Json(dict) == [decodes |-> TRUE, dict |-> dict]

Undecodable == [decodes |-> FALSE, dict |-> [k \in {} |-> << >>]]

VoiceFile(p) == [prefix |-> p, rest |-> "_voice.wav"]

\* get_prefix_from_filename(file_path.stem, "_voice"): None when the stem
\* does not end with the suffix
get_prefix_from_filename(path, suffix) ==
    IF suffix = "_voice" /\ path.rest = "_voice.wav" THEN Some(path.prefix) ELSE None

StoreHas(st, name) == \E f \in st : f.name = name

StoreData(st, name) == (CHOOSE f \in st : f.name = name).data

StoreWrite(st, name, data) ==
    {f \in st : f.name /= name} \cup {[name |-> name, data |-> data]}

\* find_corresponding_json: the tweet sidecar first, then the thread one
find_corresponding_json(st, file_path, file_suffix) ==
    LET prefix == get_prefix_from_filename(file_path, file_suffix)
    IN  IF Truthy(prefix)
        THEN IF StoreHas(st, [prefix |-> prefix[1], rest |-> "_twitt.json"])
             THEN Some([prefix |-> prefix[1], rest |-> "_twitt.json"])
             ELSE IF StoreHas(st, [prefix |-> prefix[1], rest |-> "_thread_twitt.json"])
             THEN Some([prefix |-> prefix[1], rest |-> "_thread_twitt.json"])
             ELSE None
        ELSE None

\* lines 209-214 and 291-296: the name of the subtitle file of an audio file
SubtitleName(audio_path) == [prefix |-> audio_path.prefix, rest |-> "_subtitle.json"]

\* data["transcript"] = transcription.to_dict()
WithTranscript(dict, transcription) ==
    [k \in DOMAIN dict \cup {"transcript"} |->
        IF k = "transcript" THEN transcription ELSE dict[k]]

\* update_json_with_transcript writing the transcript alone
update_json_with_transcript_Alone(st, json_path, transcription) ==
    [exc |-> ~StoreData(st, json_path).decodes,
     store |-> IF StoreData(st, json_path).decodes
               THEN StoreWrite(st, json_path,
                               Json(WithTranscript([k \in {} |-> << >>], transcription)))
               ELSE st,
     written |-> IF StoreData(st, json_path).decodes THEN <<json_path>> ELSE << >>]

\* update_json_with_transcript: json.load raises on what it cannot decode
update_json_with_transcript(st, json_path, transcription) ==
    LET data == StoreData(st, json_path)
    IN  IF ~data.decodes
        THEN [exc |-> TRUE, store |-> st, written |-> << >>]
        ELSE [exc |-> FALSE,
              store |-> StoreWrite(st, json_path,
                                   Json(WithTranscript(data.dict, transcription))),
              written |-> <<json_path>>]

\* save_subtitle
save_subtitle(st, audio_path, transcription) ==
    [exc |-> FALSE,
     store |-> StoreWrite(st, SubtitleName(audio_path), Json(transcription)),
     written |-> <<SubtitleName(audio_path)>>]

\* lines 279-303: "raise" when the sidecar cannot be decoded (the read is
\* outside the try), "skip" when the file counts as transcribed, else "go"
SkipCheck(st, audio_path, skip, update) ==
    IF ~skip THEN "go"
    ELSE IF update
    THEN LET json_path == find_corresponding_json(st, audio_path, "_voice")
         IN  IF Truthy(json_path)
             THEN IF ~StoreData(st, json_path[1]).decodes THEN "raise"
                  ELSE IF "transcript" \in DOMAIN StoreData(st, json_path[1]).dict
                  THEN "skip"
                  ELSE "go"
             ELSE "go"
    ELSE IF StoreHas(st, SubtitleName(audio_path)) THEN "skip" ELSE "go"

\* lines 317-334: save the result
SaveResult(st, audio_path, transcription, update) ==
    IF update
    THEN LET json_path == find_corresponding_json(st, audio_path, "_voice")
         IN  IF Truthy(json_path)
             THEN update_json_with_transcript(st, json_path[1], transcription)
             ELSE save_subtitle(st, audio_path, transcription)
    ELSE save_subtitle(st, audio_path, transcription)

\* what happens inside the try of an iteration: the transcription and the
\* write succeed, transcribe raises (transcoder, size ceiling, service), or
\* the output file cannot be opened for writing
TryOutcomes == {"ok", "transcribe_fails", "write_fails"}

\* lines 305-338: the try block
TryBlock(st, audio_path, update, outcome) ==
    IF outcome = "transcribe_fails"
    THEN [exc |-> TRUE, store |-> st, written |-> << >>]
    ELSE LET saved == SaveResult(st, audio_path, TranscriptDict, update)
         IN  IF outcome = "write_fails"
             THEN [exc |-> TRUE, store |-> st, written |-> << >>]
             ELSE saved

\* the sidecar a prefix has before the first run: none, that of a post, that
\* of a thread, or one that cannot be decoded
SidecarChoices(p) ==
    {{},
     {[name |-> [prefix |-> p, rest |-> "_twitt.json"], data |-> Json(SidecarDict(p))]},
     {[name |-> [prefix |-> p, rest |-> "_thread_twitt.json"],
       data |-> Json(SidecarDict(p))]},
     {[name |-> [prefix |-> p, rest |-> "_twitt.json"], data |-> Undecodable]}}

\* find_audio_files: sorted(voice_files)
SortedAudio(P) ==
    [k \in 1..Cardinality(P) |->
        VoiceFile(CHOOSE p \in P : Cardinality({q \in P : q < p}) = k - 1)]

InitBatch ==
    /\ pc = "batch_start"
    /\ \E P \in SUBSET (1..MaxAudio) : audio_found = SortedAudio(P)
    /\ update_json \in BOOLEAN
    /\ skip_existing \in BOOLEAN
    /\ \E c \in [1..MaxAudio -> UNION {SidecarChoices(p) : p \in 1..MaxAudio}] :
          /\ \A p \in 1..MaxAudio : c[p] \in SidecarChoices(p)
          /\ store = UNION {c[p] : p \in 1..MaxAudio}
    /\ run_no = 1
    /\ batch_log = << >>
    /\ writes = << >>
    /\ successful = 0
    /\ skipped = 0
    /\ failed = 0
    /\ video_files = << >>
    /\ out_dir = {}
    /\ ffmpeg_runs = << >>
    /\ extract_log = << >>
    /\ tweets = << >>
    /\ i = 1
    /\ IdleGroup
    /\ IdleFilter
    /\ IdleParse
    /\ IdleSelect
    /\ IdleDownload
    /\ IdleTranscribe
    /\ IdleRest

batchFrame ==
    <<tweets, groupVars, filterVars, parseVars, selectVars, downloadVars,
      transcribeVars, video_files, out_dir, ffmpeg_runs, extract_log, restVars>>

\* lines 250-255: no audio file found
BatchNothing ==
    /\ pc = "batch_start"
    /\ audio_found = << >>
    /\ pc' = "batch_nothing"
    /\ UNCHANGED <<i, skip_existing, successful, skipped, failed, batchVars, batchFrame>>

\* lines 257-273
BatchStart ==
    /\ pc = "batch_start"
    /\ audio_found /= << >>
    /\ successful' = 0
    /\ skipped' = 0
    /\ failed' = 0
    /\ i' = 1
    /\ pc' = "batch_loop"
    /\ UNCHANGED <<skip_existing, batchVars, batchFrame>>

\* lines 275-338: one iteration of the loop
BatchStep ==
    /\ pc = "batch_loop"
    /\ i <= Len(audio_found)
    /\ LET audio_path == audio_found[i]
           check == SkipCheck(store, audio_path, skip_existing, update_json)
       IN  CASE check = "raise" ->
                  /\ pc' = "batch_raised"
                  /\ UNCHANGED <<i, store, writes, batch_log, successful, skipped, failed>>
             [] check = "skip" ->
                  /\ skipped' = skipped + 1
                  /\ batch_log' = Append(batch_log,
                                         [run |-> run_no, iteration |-> i,
                                          audio |-> audio_path, before |-> store,
                                          after |-> store,
                                          counted |-> "skipped", written |-> << >>])
                  /\ i' = i + 1
                  /\ UNCHANGED <<pc, store, writes, successful, failed>>
             [] OTHER ->
                  \E outcome \in TryOutcomes :
                  \E r \in {TryBlock(store, audio_path, update_json, outcome)} :
                     /\ store' = r.store
                     /\ writes' = writes \o [k \in 1..Len(r.written) |->
                                                [run |-> run_no, iteration |-> i,
                                                 name |-> r.written[k]]]
                     /\ successful' = IF r.exc THEN successful ELSE successful + 1
                     /\ failed' = IF r.exc THEN failed + 1 ELSE failed
                     /\ batch_log' = Append(batch_log,
                                            [run |-> run_no, iteration |-> i,
                                             audio |-> audio_path, before |-> store,
                                             after |-> r.store,
                                             counted |-> IF r.exc THEN "failed"
                                                         ELSE "successful",
                                             written |-> r.written])
                     /\ i' = i + 1
                     /\ UNCHANGED <<pc, skipped>>
    /\ UNCHANGED <<audio_found, update_json, skip_existing, run_no, batchFrame>>

\* lines 340-345: the loop is exhausted, the summary
BatchEnd ==
    /\ pc = "batch_loop"
    /\ i > Len(audio_found)
    /\ pc' = "batch_done"
    /\ UNCHANGED <<i, skip_existing, successful, skipped, failed, batchVars, batchFrame>>

\* lines 225-235: a second run, with the arguments of the first, on the
\* files the first has left
BatchAgain ==
    /\ pc = "batch_done"
    /\ run_no = 1
    /\ run_no' = 2
    /\ pc' = "batch_start"
    /\ UNCHANGED <<i, skip_existing, successful, skipped, failed, audio_found,
                   update_json, store, batch_log, writes, batchFrame>>

NextBatch == BatchNothing \/ BatchStart \/ BatchStep \/ BatchEnd \/ BatchAgain

SpecBatch == InitBatch /\ [][NextBatch]_vars

(* ----------------- properties of transcribe_audio_files ---------------- *)

\* C21: an audio file that the first run transcribed successfully: in the
\* second run, with skip_existing, it is skipped (the service is not called
\* for it) and no file is written for it, in both modes and with or without
\* a sidecar; without skip_existing it is not skipped.
C21_SecondRunSkips ==
    \A a, b \in 1..Len(batch_log) :
        (/\ batch_log[a].run = 1 /\ batch_log[a].counted = "successful"
         /\ batch_log[b].run = 2 /\ batch_log[b].audio = batch_log[a].audio) =>
            /\ skip_existing =>
                  /\ batch_log[b].counted = "skipped"
                  /\ batch_log[b].written = << >>
                  /\ batch_log[b].after = batch_log[b].before
            /\ ~skip_existing => batch_log[b].counted /= "skipped"

\* the sidecar of the audio file of an entry of the log, as the directory
\* was before the iteration: << >> when there is none
SidecarBefore(e) ==
    LET tweet_json == [prefix |-> e.audio.prefix, rest |-> "_twitt.json"]
        thread_json == [prefix |-> e.audio.prefix, rest |-> "_thread_twitt.json"]
    IN  IF StoreHas(e.before, tweet_json) THEN <<tweet_json>>
        ELSE IF StoreHas(e.before, thread_json) THEN <<thread_json>>
        ELSE << >>

\* the only file that differs between the two directories is the named one
OnlyChanged(before, after, name) ==
    /\ \A f \in before : f.name /= name => f \in after
    /\ \A f \in after : f.name /= name => f \in before

\* C22: after a successful transcription exactly one file has been written.
\* In update_json mode with a sidecar of the audio file's prefix, it is that
\* sidecar: its 'transcript' key holds the transcript, its other keys are
\* as before, and nothing else in the directory changed (no subtitle file).
\* Otherwise it is {prefix}_subtitle.json, which holds the transcript, and
\* nothing else in the directory changed (no sidecar).
C22_PersistedInOnePlace ==
    \A n \in 1..Len(batch_log) :
        batch_log[n].counted = "successful" =>
            LET e == batch_log[n]
                sidecar == SidecarBefore(e)
            IN  /\ Len(e.written) = 1
                /\ OnlyChanged(e.before, e.after, e.written[1])
                /\ IF update_json /\ sidecar /= << >>
                   THEN /\ e.written[1] = sidecar[1]
                        /\ LET old == StoreData(e.before, sidecar[1]).dict
                               new == StoreData(e.after, sidecar[1]).dict
                           IN  /\ StoreData(e.after, sidecar[1]).decodes
                               /\ DOMAIN new = DOMAIN old \cup {"transcript"}
                               /\ new["transcript"] = TranscriptDict
                               /\ \A k \in DOMAIN old \ {"transcript"} : new[k] = old[k]
                   ELSE /\ e.written[1] =
                              [prefix |-> e.audio.prefix, rest |-> "_subtitle.json"]
                        /\ StoreData(e.after, e.written[1]) = Json(TranscriptDict)

\* update_json mode: the transcript of the first audio file went into the
\* sidecar of its thread, that of the second, which has no sidecar, into a
\* subtitle file
C22_Witness ==
    /\ pc = "batch_done"
    /\ update_json
    /\ successful = 2
    /\ Len(batch_log) = 2
    /\ batch_log[1].written = <<[prefix |-> 1, rest |-> "_thread_twitt.json"]>>
    /\ batch_log[2].written = <<[prefix |-> 2, rest |-> "_subtitle.json"]>>

\* C23: transcribe_audio_files never raises: whatever fails for an item, the
\* loop goes on, and at the summary successful + skipped + failed is the
\* number of audio files found.
C23_BatchNeverRaises ==
    /\ pc /= "batch_raised"
    /\ pc = "batch_done" => successful + skipped + failed = Len(audio_found)

(* ------------- the two pipelines, run one after the other -------------- *)

\* the runs of the two pipelines over the same batch
MaxRuns == 2

\* datetime.isoformat(): the text names the wall-clock reading and the offset
isoformat(d) == [kind |-> "iso", wall |-> d.wall, tz |-> d.tz]

TweetKeys ==
    {"id", "author", "text", "date", "url", "video_url", "video_file",
     "is_retweet", "is_reply", "reply_to_id"}

\* Tweet.to_dict: 'transcript' is a key only when there is a transcript
tweet_to_dict(tweet) ==
    [k \in TweetKeys \cup (IF tweet.transcript /= None THEN {"transcript"} ELSE {}) |->
        CASE k = "date" -> isoformat(tweet.date)
          [] k = "transcript" -> tweet.transcript[1]
          [] OTHER -> tweet[k]]

ThreadKeys == {"id", "author", "date", "tweets", "video_url", "video_file"}

\* Thread.to_dict
thread_to_dict(thread) ==
    [k \in ThreadKeys \cup (IF thread.transcript /= None THEN {"transcript"} ELSE {}) |->
        CASE k = "date" -> isoformat(thread.date)
          [] k = "tweets" -> [m \in 1..Len(thread.tweets) |->
                                 tweet_to_dict(thread.tweets[m])]
          [] k = "transcript" -> thread.transcript[1]
          [] OTHER -> thread[k]]

\* the path of output_dir with that file name: its prefix and what follows
AsPath(name) ==
    [prefix |-> name[1],
     rest |-> CASE name[2] = "_twitt" -> "_twitt.json"
                [] name[2] = "_thread_twitt" -> "_thread_twitt.json"
                [] OTHER -> "_video.mp4"]

\* save_tweet_json: json.dump(tweet.to_dict()) over what the file held
save_tweet_json(st, tweet) ==
    StoreWrite(st, AsPath(get_tweet_filename(tweet)), Json(tweet_to_dict(tweet)))

\* save_thread_json
save_thread_json(st, thread) ==
    StoreWrite(st, AsPath(get_thread_filename(thread)), Json(thread_to_dict(thread)))

\* the payload TwitterAPI._parse_tweet builds for the post k: 'datetime' is
\* None when the API gave no created_at
PipePayload(k, time, video, parent) ==
    [key \in {"id", "author", "text", "datetime", "url", "videoUrl",
              "isRetweet", "isReply", "replyToId"} |->
        CASE key = "id" -> k
          [] key = "author" -> "target"
          [] key = "text" -> "text"
          [] key = "datetime" -> (IF time = "iso" THEN IsoTime(1, 0) ELSE NoTime)
          [] key = "url" -> UrlOf(k)
          [] key = "videoUrl" -> video
          [] key = "isRetweet" -> FALSE
          [] key = "isReply" -> (parent /= None)
          [] key = "replyToId" -> parent]

\* scraper.py lines 186-192: the posts parsed, retweets left out
RECURSIVE ParseAll(_, _)
ParseAll(raw, now) ==
    IF raw = << >> THEN << >>
    ELSE LET r == parse_api_tweet(Head(raw), now)
             rest == ParseAll(Tail(raw), now)
         IN  IF Truthy(r.value) /\ ~r.value[1].is_retweet
             THEN <<r.value[1]>> \o rest
             ELSE rest

\* filter_tweets_by_date with the range the configuration gives
FilterAll(ts, end) == SelectSeq(ts, LAMBDA t : KeepsTweet(Naive(0), Naive(end), t))

\* group_tweets_into_threads on a batch of at most two posts: one post that
\* continues the other makes the thread of the two
GroupAll(ts, target) ==
    LET conts == {k \in 1..Len(ts) : IsContinuation(ts, ts[k], target)}
    IN  IF conts = {} THEN [alone |-> ts, chains |-> << >>]
        ELSE LET k == CHOOSE c \in conts : TRUE
                 parent == TweetById(ts, ts[k].reply_to_id[1])[1]
                 thread == Thread(parent.id, parent.author, parent.date,
                                  SortByDate(<<parent, ts[k]>>))
             IN  [alone |-> SelectSeq(ts, LAMBDA t : t.id \notin {parent.id, ts[k].id}),
                  chains |-> <<[thread EXCEPT
                                  !.video_url = get_first_video_url(thread)]>>]

\* scraper.py lines 235-252: the loop over the standalone posts
RECURSIVE PipeTweets(_, _, _, _)
PipeTweets(ts, outcome, fs, st) ==
    IF ts = << >> THEN [files |-> fs, store |-> st]
    ELSE LET tweet == Head(ts)
         IN  IF TruthyStr(tweet.video_url)
             THEN LET d == download_tweet_video(tweet, outcome, fs)
                  IN  PipeTweets(Tail(ts), outcome, d.files,
                                 IF d.exc THEN st ELSE save_tweet_json(st, d.item))
             ELSE PipeTweets(Tail(ts), outcome, fs, save_tweet_json(st, tweet))

\* scraper.py lines 254-272: the loop over the threads
RECURSIVE PipeThreads(_, _, _, _)
PipeThreads(ths, outcome, fs, st) ==
    IF ths = << >> THEN [files |-> fs, store |-> st]
    ELSE LET thread == Head(ths)
         IN  IF has_video(thread)
             THEN LET d == download_thread_video(
                               thread, [m \in 1..Len(thread.tweets) |-> outcome], fs)
                  IN  PipeThreads(Tail(ths), outcome, d.files,
                                  IF d.exc THEN st ELSE save_thread_json(st, d.item))
             ELSE PipeThreads(Tail(ths), outcome, fs, save_thread_json(st, thread))

\* run_scraper from the parse loop on, lines 185-274: every post parsed in a
\* run reads the clock at `now`
RunScraper(raw, now, end, only, outcome, fs, st) ==
    LET parsed == FilterAll(ParseAll(raw, now), end)
        grouped == GroupAll(parsed, "target")
        to_process == IF only
                      THEN SelectSeq(grouped.alone, LAMBDA t : TruthyStr(t.video_url))
                      ELSE grouped.alone
        chains_to_process == IF only THEN SelectSeq(grouped.chains, has_video)
                             ELSE grouped.chains
        done == PipeTweets(to_process, outcome, fs, st)
    IN  PipeThreads(chains_to_process, outcome, done.files, done.store)

\* find_video_files: the files named *_video.mp4
VideosIn(fs) == {f.name : f \in {g \in fs : g.name[2] = "_video" /\ g.name[3] = "mp4"}}

\* extract_audio_from_videos with skip_existing: each video has its own
\* voice file, so the order of the loop does not matter
RECURSIVE ExtractAll(_, _, _, _)
ExtractAll(videos, outcome, dir, run) ==
    IF videos = {} THEN dir
    ELSE LET v == CHOOSE w \in videos : TRUE
             output_path == VoiceName(AsPath(v))
         IN  ExtractAll(videos \ {v}, outcome,
                        IF ShouldSkip(TRUE, dir, output_path) THEN dir
                        ELSE extract_audio(output_path, outcome, dir, run).dir,
                        run)

\* transcribe_audio_files with skip_existing and update_json: each audio
\* file has its own sidecar; log keeps what the loop did with each
RECURSIVE TranscribeAll(_, _, _, _)
TranscribeAll(audio, outcome, st, log) ==
    IF audio = {} THEN [store |-> st, log |-> log]
    ELSE LET a == CHOOSE b \in audio : TRUE
             check == SkipCheck(st, a, TRUE, TRUE)
             r == IF check = "go" THEN TryBlock(st, a, TRUE, outcome)
                  ELSE [exc |-> FALSE, store |-> st, written |-> << >>]
         IN  TranscribeAll(audio \ {a}, outcome, r.store,
                           log \cup {[audio |-> a, check |-> check,
                                      written |-> r.written]})

\* the batch is one post, or a post and a reply of its author to it; the
\* API gives every post of the batch a created_at, or none; the
\* collaborators (yt-dlp, FFmpeg, the transcription service and the file
\* system) answer every call of both runs the same way; the clock goes on
InitPipeline ==
    /\ pc = "pipe_scrape"
    /\ \E time \in {"none", "iso"}, kind \in {"tweet", "thread"},
          v1 \in {None, Some("video")}, v2 \in {None, Some("video")} :
          batch_payloads =
              IF kind = "tweet" THEN <<PipePayload(1, time, v1, None)>>
              ELSE <<PipePayload(1, time, v1, None), PipePayload(2, time, v2, Some(1))>>
    /\ answers \in [download : DownloadOutcomes, ffmpeg : FfmpegOutcomes,
                    transcribe : TryOutcomes]
    /\ clock \in {2, 3}
    /\ range_end \in {1, 3 + MaxRuns}
    /\ videos_only \in BOOLEAN
    /\ disk = {}
    /\ voice_dir = {}
    /\ sidecars = {}
    /\ pipe_run = 1
    /\ after_run = << >>
    /\ pipe_log = << >>
    /\ tweets = << >>
    /\ i = 1
    /\ IdleGroup
    /\ IdleFilter
    /\ IdleParse
    /\ IdleSelect
    /\ IdleDownload
    /\ IdleTranscribe
    /\ IdleExtract
    /\ IdleBatch
    /\ IdleFetch

pipeFrame ==
    <<tweets, i, groupVars, filterVars, parseVars, selectVars, downloadVars,
      transcribeVars, extractVars, batchVars, fetchVars>>

\* pipeline 1: run_scraper on the batch
PipeScrape ==
    /\ pc = "pipe_scrape"
    /\ \E r \in {RunScraper(batch_payloads, clock, range_end, videos_only,
                            answers.download, disk, sidecars)} :
          /\ disk' = r.files
          /\ sidecars' = r.store
    /\ clock' = clock + 1
    /\ pc' = "pipe_extract"
    /\ UNCHANGED <<batch_payloads, answers, range_end, videos_only, voice_dir,
                   pipe_run, after_run, pipe_log, pipeFrame>>

\* pipeline 2, first command: extract_audio_from_videos
PipeExtract ==
    /\ pc = "pipe_extract"
    /\ voice_dir' = ExtractAll(VideosIn(disk), answers.ffmpeg, voice_dir, pipe_run)
    /\ pc' = "pipe_transcribe"
    /\ UNCHANGED <<batch_payloads, answers, clock, range_end, videos_only, disk,
                   sidecars, pipe_run, after_run, pipe_log, pipeFrame>>

\* pipeline 2, second command: transcribe_audio_files --update-json; the
\* run is over
PipeTranscribe ==
    /\ pc = "pipe_transcribe"
    /\ \E r \in {TranscribeAll({f.name : f \in voice_dir}, answers.transcribe,
                               sidecars, {})} :
          /\ sidecars' = r.store
          /\ pipe_log' = Append(pipe_log, r.log)
          /\ after_run' = Append(after_run, r.store)
    /\ pc' = "pipe_ran"
    /\ UNCHANGED <<batch_payloads, answers, clock, range_end, videos_only, disk,
                   voice_dir, pipe_run, pipeFrame>>

\* the two pipelines are run again on the same batch
PipeAgain ==
    /\ pc = "pipe_ran"
    /\ pipe_run < MaxRuns
    /\ pipe_run' = pipe_run + 1
    /\ pc' = "pipe_scrape"
    /\ UNCHANGED <<batch_payloads, answers, clock, range_end, videos_only, disk,
                   voice_dir, sidecars, after_run, pipe_log, pipeFrame>>

NextPipeline == PipeScrape \/ PipeExtract \/ PipeTranscribe \/ PipeAgain

SpecPipeline == InitPipeline /\ [][NextPipeline]_vars

(* ------------------- properties of the two pipelines ------------------- *)

\* C24: after the second run of the two pipelines on the same batch, with
\* skip-existing enabled and collaborators that answer the same way, the
\* JSON sidecars are the files they were after the first run, byte for byte.
C24_RunsIdempotent ==
    Len(after_run) >= 2 => after_run[2] = after_run[1]

\* the sidecars an iteration of transcribe_audio_files merged a transcript into
MergedInto(e) ==
    {e.written[k] : k \in {m \in 1..Len(e.written) : e.written[m].rest /= "_subtitle.json"}}

\* C29: a sidecar a transcript was merged into holds a transcript in every
\* later state, a re-run of pipeline 1 included, and every later
\* transcription run with skip_existing skips its audio file.
C29_TranscriptStays ==
    \A r \in 1..Len(pipe_log) : \A e \in pipe_log[r] : \A n \in MergedInto(e) :
        /\ StoreHas(sidecars, n)
        /\ "transcript" \in DOMAIN StoreData(sidecars, n).dict
        /\ \A later \in (r + 1)..Len(pipe_log) : \A e2 \in pipe_log[later] :
              e2.audio = e.audio => e2.check = "skip"

(* ------------------- run_scraper: fetching the batch ------------------- *)

\* the most requests the API is sent
MaxPages == 3

\* the most posts in a page of the API's answer
MaxPageSize == 2

\* what the API answers a request with: it raises, it has no data, or it
\* gives a page of posts with or without a next_token
ApiError == [kind |-> "error", size |-> 0, next_token |-> FALSE]

NoData == [kind |-> "none", size |-> 0, next_token |-> FALSE]

Page(n, more) == [kind |-> "data", size |-> n, next_token |-> more]

\* the payloads of the page of that request: a post's id is its position in
\* the timeline
PagePayloads(request, page) ==
    [q \in 1..page.size |->
        PipePayload((request - 1) * MaxPageSize + q, "iso", None, None)]

\* the payloads get_user_tweets yields of a page when tweet_count posts
\* were yielded before: it returns once the limit is reached
Yielded(request, page, tweet_count, limit) ==
    LET all == PagePayloads(request, page)
    IN  IF Truthy(limit) /\ tweet_count + Len(all) > limit[1]
        THEN SubSeq(all, 1, limit[1] - tweet_count)
        ELSE all

\* every answer but the last gives a page and a next_token
InitFetch ==
    /\ pc = "fetch_request"
    /\ \E n \in 1..MaxPages :
          \E sizes \in [1..n -> 1..MaxPageSize] :
             \E last \in {ApiError, NoData} \cup {Page(m, FALSE) : m \in 1..MaxPageSize} :
                api_pages = [k \in 1..n |->
                                IF k < n THEN Page(sizes[k], TRUE) ELSE last]
    /\ fetch_limit \in {None} \cup {Some(m) : m \in 1..MaxPageSize}
    /\ page_at = 1
    /\ raw_tweets = << >>
    /\ api_error = FALSE
    /\ fetch_store = {}
    /\ summary = FALSE
    /\ tweets = << >>
    /\ i = 1
    /\ IdleGroup
    /\ IdleFilter
    /\ IdleSelect
    /\ IdleDownload
    /\ IdleTranscribe
    /\ IdleExtract
    /\ IdleBatch
    /\ IdlePipe

fetchFrame ==
    <<tweets, i, groupVars, filterVars, selectVars, downloadVars, transcribeVars,
      extractVars, batchVars, pipeVars>>

\* twitter_api.py lines 162-176 and scraper.py lines 174-177: the request
\* raises, get_user_tweets raises TwitterAPIError, run_scraper prints the
\* error and returns
FetchFails ==
    /\ pc = "fetch_request"
    /\ api_pages[page_at].kind = "error"
    /\ api_error' = TRUE
    /\ pc' = "run_returned"
    /\ UNCHANGED <<raw_tweets, api_pages, page_at, fetch_limit, fetch_store, summary,
                   fetchFrame>>

\* twitter_api.py lines 162-200 and scraper.py lines 163-172: a request
\* that is answered, and the posts of its page appended to raw_tweets
FetchPage ==
    /\ pc = "fetch_request"
    /\ api_pages[page_at].kind /= "error"
    /\ LET page == api_pages[page_at]
           got == Yielded(page_at, page, Len(raw_tweets), fetch_limit)
       IN  /\ raw_tweets' = raw_tweets \o got
           /\ IF /\ page.kind = "data"
                 /\ page.next_token
                 /\ ~(Truthy(fetch_limit) /\ Len(raw_tweets) + Len(got) >= fetch_limit[1])
              THEN /\ page_at' = page_at + 1
                   /\ pc' = "fetch_request"
              ELSE /\ page_at' = page_at
                   /\ pc' = "fetch_done"
    /\ UNCHANGED <<api_pages, fetch_limit, api_error, fetch_store, summary, fetchFrame>>

\* scraper.py lines 181-183: nothing was fetched
FetchedNothing ==
    /\ pc = "fetch_done"
    /\ raw_tweets = << >>
    /\ pc' = "run_returned"
    /\ UNCHANGED <<raw_tweets, fetchVars, fetchFrame>>

\* scraper.py lines 185-283: the batch is parsed, filtered, reconstructed
\* and saved, and the summary is printed
FetchedSome ==
    /\ pc = "fetch_done"
    /\ raw_tweets /= << >>
    /\ fetch_store' = RunScraper(raw_tweets, 2, 3, FALSE, "no_info", {}, fetch_store).store
    /\ summary' = TRUE
    /\ pc' = "run_returned"
    /\ UNCHANGED <<raw_tweets, api_pages, page_at, fetch_limit, api_error, fetchFrame>>

NextFetch == FetchFails \/ FetchPage \/ FetchedNothing \/ FetchedSome

SpecFetch == InitFetch /\ [][NextFetch]_vars

(* ---------------------- properties of the fetch ------------------------ *)

\* the sidecar of the post of that payload has been saved
Persisted(data) ==
    \E f \in fetch_store : f.data.decodes /\ f.data.dict["id"] = data["id"]

\* C25: when a request of the fetch has raised, run_scraper still parses and
\* saves the posts fetched before it and ends with its summary.
C25_FetchErrorRecovered ==
    (pc = "run_returned" /\ api_error /\ raw_tweets /= << >>)
        => /\ summary
           /\ \A k \in 1..Len(raw_tweets) : Persisted(raw_tweets[k])

(* ------------ group_tweets_into_threads: the video of a thread --------- *)

\* the longest batch of posts with videos handed to group_tweets_into_threads
MaxVideoPosts == 3

\* the batches: every post is the target's; a timestamp is one of two
\* instants; a post replies to none or to an earlier post of the batch; its
\* video_url is any of VideoUrls
VideoBatchPosts(n) ==
    [1..n -> [wall : 1..2, reply_to_id : {None} \cup {Some(k) : k \in 1..(n - 1)},
              video_url : VideoUrls]]

MakeVideoBatch(n, f) ==
    [k \in 1..n |->
        Tweet(k, "target", "text", Naive(f[k].wall), "url", f[k].video_url, FALSE,
              f[k].reply_to_id /= None, f[k].reply_to_id)]

InitGroupVideo ==
    /\ pc = "group_loop"
    /\ \E n \in 0..MaxVideoPosts : \E f \in VideoBatchPosts(n) :
          /\ \A k \in 1..n : f[k].reply_to_id /= None => f[k].reply_to_id[1] < k
          /\ tweets = MakeVideoBatch(n, f)
    /\ i = 1
    /\ IdleGroup
    /\ IdleFilter
    /\ IdleParse
    /\ IdleLater

SpecGroupVideo == InitGroupVideo /\ [][NextGroup]_vars

\* the members of a thread that carry a video_url, by their positions
WithUrl(thread) == {m \in 1..Len(thread.tweets) : TruthyStr(thread.tweets[m].video_url)}

\* C26: the video_url of a returned thread is that of the first member, in
\* the sorted sequence, whose video_url is not empty, and is absent when no
\* member has one; has_video() is true exactly when video_url is set.
C26_ThreadVideoUrl ==
    GroupDone =>
        \A k \in 1..Len(threads) :
            LET thread == threads[k]
            IN  /\ WithUrl(thread) = {} => thread.video_url = None
                /\ WithUrl(thread) /= {} =>
                      thread.video_url =
                          thread.tweets[CHOOSE m \in WithUrl(thread) :
                                           \A o \in WithUrl(thread) : m <= o].video_url
                /\ has_video(thread) <=> thread.video_url /= None

\* a returned thread whose first member has an empty video_url and whose
\* second member has a URL
C26_Witness ==
    /\ GroupDone
    /\ \E k \in 1..Len(threads) :
          /\ Len(threads[k].tweets) >= 2
          /\ threads[k].tweets[1].video_url = Some("")
          /\ threads[k].tweets[2].video_url = Some("video")
          /\ threads[k].video_url = Some("video")

(* ------------- download_video called again on its directory ------------ *)

\* the calls of download_video for one output file name
MaxCalls == 3

\* what yt-dlp does in a call: as in DownloadOutcomes, or it writes a file
\* with one of the two other suffixes download_video looks for
CallOutcomes == DownloadOutcomes \cup {"mkv", "mov"}

\* what a file holds when it was there before the call
Earlier == Some("earlier call")

\* the directory as a call finds it: what is there is from earlier calls
Aged(fs) == {[name |-> f.name, content |-> Earlier] : f \in fs}

\* the post whose video is downloaded
CalledFor == ProcPost(1, Some("video"))

InitCalls ==
    /\ pc = "dv_call"
    /\ tweets = << >>
    /\ i = 1
    /\ IdleGroup
    /\ IdleFilter
    /\ IdleParse
    /\ IdleLater

\* one call of download_video on the directory the calls before it left
DownloadCall ==
    /\ pc = "dv_call"
    /\ Len(results) < MaxCalls
    /\ \E outcome \in CallOutcomes :
          \E d \in {download_video(CalledFor.url, get_video_filename(CalledFor),
                                   outcome, Aged(files))} :
             /\ files' = d.files
             /\ results' = Append(results, [outcome |-> outcome, exc |-> d.exc,
                                            path |-> d.path, files |-> d.files])
    /\ UNCHANGED <<pc, tweets, i, groupVars, filterVars, parseVars, selectVars,
                   tweets_to_process, threads_to_process, video_success_count,
                   video_fail_count, json_count, transcribeVars, extractVars, lastVars>>

NextCalls == DownloadCall

SpecCalls == InitCalls /\ [][NextCalls]_vars

\* the file of that name in the directory a call left
FileAt(r, name) == CHOOSE f \in r.files : f.name = name

\* C27: when download_video returns a path, it is the .mp4 path, a file is
\* there and it is the file the downloader wrote in this call, and no file
\* with the suffix the downloader wrote it under remains; when no file with
\* one of the four suffixes is there after the download, it returns None.
C27_ReturnsTheDownload ==
    \A k \in 1..Len(results) :
        LET r == results[k]
            mp4 == with_suffix(get_video_filename(CalledFor), "mp4")
        IN  /\ Truthy(r.path) =>
                  /\ r.path[1] = OutputPath(mp4)
                  /\ Exists(r.files, mp4)
                  /\ FileAt(r, mp4).content /= Earlier
                  /\ r.outcome \in {"mkv", "webm", "mov"} =>
                        ~Exists(r.files, with_suffix(mp4, r.outcome))
            /\ (\A e \in 1..Len(VideoExts) :
                   ~Exists(r.files, with_suffix(mp4, VideoExts[e])))
                  => r.path = None

(* ------------- filter_tweets_by_date: timestamps with offsets ---------- *)

\* C28: a post whose timestamp carries an offset is retained exactly when
\* its instant, converted to UTC, lies in [start, end], both ends included;
\* so two posts of the same UTC instant with different offsets are both
\* retained or both dropped.
C28_ComparesUtcInstants ==
    FilterDone =>
        /\ \A t \in Range(tweets) :
              t.date.tz /= None =>
                  (t \in Range(filtered)
                      <=> /\ start_date.wall <= Instant(t.date)
                          /\ Instant(t.date) <= end_date.wall)
        /\ \A t, u \in Range(tweets) :
              (/\ t.date.tz /= None
               /\ u.date.tz /= None
               /\ t.date.tz /= u.date.tz
               /\ Instant(t.date) = Instant(u.date))
                  => (t \in Range(filtered) <=> u \in Range(filtered))

(* ------------ process_tweet and process_thread: the sidecar ------------ *)

\* what the sidecar of the item of an entry of results holds for video_file
SidecarVideoFile(r) == (CHOOSE f \in files : f.name = SidecarOf(r)).content

\* C30: the sidecar process_tweet or process_thread has written names the
\* downloaded <prefix>_video.mp4 exactly when the call returned success,
\* the returned video path being that name in the output directory; it holds
\* null for video_file when the call returned failure.
C30_SidecarReflectsDownload ==
    \A k \in 1..Len(results) :
        LET r == results[k]
            video == get_video_filename(ItemOf(r))
        IN  r.called =>
               /\ Exists(files, SidecarOf(r))
               /\ r.success =>
                     /\ SidecarVideoFile(r) = Some(video)
                     /\ r.video_path = Some(OutputPath(video))
                     /\ Exists(files, video)
               /\ ~r.success =>
                     /\ SidecarVideoFile(r) = None
                     /\ r.video_path = None

\* a call of process_tweet that failed and a call of process_thread that
\* succeeded, each with its sidecar
C30_Witness ==
    /\ \E k \in 1..Len(results) :
          /\ results[k].kind = "tweet"
          /\ results[k].called
          /\ ~results[k].success
          /\ SidecarVideoFile(results[k]) = None
    /\ \E k \in 1..Len(results) :
          /\ results[k].kind = "thread"
          /\ results[k].called
          /\ results[k].success
          /\ SidecarVideoFile(results[k]) = Some(get_video_filename(ItemOf(results[k])))

====
